---- MODULE Spec2Model ----
(***************************************************************************)
(* dm-to-date: the event-extraction pipeline (process-ocr) and the         *)
(* calendar commit engine (create-calendar-event), as a state machine over *)
(* the persistent store (users, messages, draft_events, events), the       *)
(* external calendar provider and a set of concurrently running handler    *)
(* invocations.                                                            *)
(***************************************************************************)
EXTENDS Integers, Sequences, FiniteSets, TLC

(***************************************************************************)
(* IEEE-754 doubles.  `confidence` is a JavaScript number and the code     *)
(* adds 0.1, 0.2 and 0.3 to it and compares it with 0.8 and 1.0.  A double *)
(* x is held exactly as <<t, n>> with x = t/10 + n*u, u = 1/(5*2^56): t is *)
(* the number of tenths added so far and n the accumulated binary error.   *)
(* Every double that is a multiple of 2^-56 has this form with integer n.  *)
(***************************************************************************)
Pow2Mod5(j) == CASE j % 4 = 0 -> 1 [] j % 4 = 1 -> 2 [] j % 4 = 2 -> 4 [] OTHER -> 3

Pow2(k) == CASE k = 0 -> 1 [] k = 1 -> 2 [] k = 2 -> 4 [] k = 3 -> 8 [] OTHER -> 16

\* t/10 + n*u lies below b/10
BelowTenths(t, n, b) == t < b \/ (t = b /\ n < 0)

\* the binade of a value in [0.5, 16): 0 for [0.5,1), 1 for [1,2), ...
Binade(t, n) ==
    IF BelowTenths(t, n, 10) THEN 0
    ELSE IF BelowTenths(t, n, 20) THEN 1
    ELSE IF BelowTenths(t, n, 40) THEN 2
    ELSE IF BelowTenths(t, n, 80) THEN 3
    ELSE 4

\* the exact sum t/10 + n*u rounded to the nearest double, ties to even
\* round t*2^55 + n, whose remainder modulo 2 ulp is r, to a multiple of ulp
RoundRemainder(t, n, ulp, r) ==
    IF 2 * (r % ulp) < ulp THEN <<t, n - (r % ulp)>>
    ELSE IF 2 * (r % ulp) > ulp THEN <<t, n + (ulp - (r % ulp))>>
    ELSE IF r >= ulp THEN <<t, n + (ulp - (r % ulp))>>
    ELSE <<t, n - (r % ulp)>>

\* ulp is 2^(k-53) in units of u, and p is 2^55 mod 2 ulp
RoundInBinade(t, n, ulp, p) ==
    RoundRemainder(t, n, ulp, (((t % (2 * ulp)) * p) + n) % (2 * ulp))

RoundToDouble(t, n) ==
    RoundInBinade(t, n, 40 * Pow2(Binade(t, n)),
                  16 * Pow2(Binade(t, n)) * Pow2Mod5(51 - Binade(t, n)))

FAdd(a, b) == RoundToDouble(a[1] + b[1], a[2] + b[2])

FLess(a, b) == IF a[1] # b[1] THEN a[1] < b[1] ELSE a[2] < b[2]

FMin(a, b) == IF FLess(b, a) THEN b ELSE a

\* the double literals of the code
D05 == <<5, 0>>
D01 == <<1, 2>>
D02 == <<2, 4>>
D03 == <<3, -4>>
D08 == <<8, 16>>
D10 == <<10, 0>>

(***************************************************************************)
(* Text.  A text is a sequence of raw lines (the pieces between "\n").     *)
(* The lines are concrete strings; what the string primitives and regular  *)
(* expressions of parseEventFromText return on them is tabulated below.    *)
(***************************************************************************)
LTitle   == "Spring Gala Night"
LDate    == "Date: 2024-09-15T19:00:00Z"
LWhen    == "When: 2024-09-16"
LTime    == "Time: 7:00 PM"
LRoom    == "  Room 205"
LContact == "Contact: club@university.edu"
LBlank   == "   "

Lines == {LTitle, LDate, LWhen, LTime, LRoom, LContact, LBlank}

\* the lines of the template literal performOCR returns, with their indent
PTitle      == "    CLUB INFORMATION SESSION"
PJoin       == "    Join us for an exciting information session!"
PDate       == "    Date: Friday, September 15th, 2024"
PTime       == "    Time: 7:00 PM - 9:00 PM"
PLocation   == "    Location: Student Center Room 205"
PLearn      == "    Learn about:"
PClub       == "    - Club activities and events"
PHow        == "    - How to get involved"
PNetworking == "    - Networking opportunities"
PPizza      == "    Free pizza and drinks provided!"
PContact    == "    Contact: club@university.edu"
PWebsite    == "    Website: https://university.edu/club"
PIndent     == "    "

\* the text performOCR returns: the literal opens and closes with a line break
PlaceholderText ==
    << "", PTitle, PIndent, PJoin, PIndent, PDate, PTime, PLocation, PIndent,
       PLearn, PClub, PHow, PNetworking, PIndent, PPizza, PIndent,
       PContact, PWebsite, PIndent >>

\* line.trim()
Trim(l) ==
    CASE l = LRoom -> "Room 205"
      [] l = LBlank -> ""
      [] l = PTitle -> "CLUB INFORMATION SESSION"
      [] l = PJoin -> "Join us for an exciting information session!"
      [] l = PDate -> "Date: Friday, September 15th, 2024"
      [] l = PTime -> "Time: 7:00 PM - 9:00 PM"
      [] l = PLocation -> "Location: Student Center Room 205"
      [] l = PLearn -> "Learn about:"
      [] l = PClub -> "- Club activities and events"
      [] l = PHow -> "- How to get involved"
      [] l = PNetworking -> "- Networking opportunities"
      [] l = PPizza -> "Free pizza and drinks provided!"
      [] l = PContact -> "Contact: club@university.edu"
      [] l = PWebsite -> "Website: https://university.edu/club"
      [] l = PIndent -> ""
      [] OTHER -> l

\* line.length of a trimmed line
Length(l) ==
    CASE l = LTitle -> 17 [] l = LDate -> 26 [] l = LWhen -> 16 [] l = LTime -> 13
      [] l = "Room 205" -> 8 [] l = LContact -> 28
      [] l = "CLUB INFORMATION SESSION" -> 24
      [] l = "Join us for an exciting information session!" -> 44
      [] l = "Date: Friday, September 15th, 2024" -> 34
      [] l = "Time: 7:00 PM - 9:00 PM" -> 23
      [] l = "Location: Student Center Room 205" -> 33
      [] l = "Learn about:" -> 12
      [] l = "- Club activities and events" -> 28
      [] l = "- How to get involved" -> 21
      [] l = "- Networking opportunities" -> 26
      [] l = "Free pizza and drinks provided!" -> 31
      [] l = "Website: https://university.edu/club" -> 36
      [] OTHER -> 0

\* line.toLowerCase().includes(w) for w in "date", "time", "location"
LowerIncludes(l, w) ==
    \/ l = LDate /\ w = "date"
    \/ l = LTime /\ w = "time"
    \/ l = "Date: Friday, September 15th, 2024" /\ w = "date"
    \/ l = "Time: 7:00 PM - 9:00 PM" /\ w = "time"
    \/ l = "Location: Student Center Room 205" /\ w = "location"

NoMatch == "<null>"

\* match[1] || match[0] of line.match(dateTimeRegexes[k]), or NoMatch
DateTimeMatch(l, k) ==
    CASE l = LDate /\ k = 1 -> "2024-09-15T19:00:00Z"
      [] l = LWhen /\ k = 1 -> "2024-09-16"
      [] l = LTime /\ k = 2 -> "7:00 PM"
      [] l = LTime /\ k = 5 -> "7:00 PM"
      [] l = "Date: Friday, September 15th, 2024" /\ k = 1 -> "Friday"
      [] l = "Date: Friday, September 15th, 2024" /\ k = 3 -> "Friday"
      [] l = "Date: Friday, September 15th, 2024" /\ k = 6 -> "September"
      [] l = "Time: 7:00 PM - 9:00 PM" /\ k = 2 -> "7:00 PM - 9:00 PM"
      [] l = "Time: 7:00 PM - 9:00 PM" /\ k = 5 -> "7:00 PM"
      [] OTHER -> NoMatch

\* timeMatch[1] of line.match(/(\d{1,2}:\d{2}\s*(?:am|pm))/i), or NoMatch
TimeMatch(l) ==
    IF l \in {LTime, "Time: 7:00 PM - 9:00 PM"} THEN "7:00 PM" ELSE NoMatch

\* match[1].trim() of line.match(locationRegexes[k]), or NoMatch
LocationMatch(l, k) ==
    CASE l = "Room 205" /\ k = 3 -> "Room 205"
      [] l = "Location: Student Center Room 205" /\ k = 1 -> "Student Center Room 205"
      [] l = "Location: Student Center Room 205" /\ k = 3 -> "Room 205"
      [] l = "Location: Student Center Room 205" /\ k = 4 -> "Location: Student Center Room 205"
      [] OTHER -> NoMatch

\* line.includes('@') || line.includes('http') || line.includes('contact')
IsNoteLine(l) == l \in {LContact, "Website: https://university.edu/club"}

(***************************************************************************)
(* Dates.  An instant is a number of minutes since 2024-01-01T00:00:00Z;   *)
(* NaN is the time value of an Invalid Date.  A start_dt / end_dt value is *)
(* Empty (''), Iso(t) (the toISOString() form of instant t, which contains *)
(* 'T') or Raw(s) (any other string).                                      *)
(***************************************************************************)
NaN == -1

\* new Date(s).getTime(), the functions running in UTC: the date-time forms
\* without a zone are read as local time, a lone number as a year; the
\* weekday, month and time-of-day matches of the catalogue give an Invalid
\* Date
DateParse(s) ==
    CASE s = "2024-09-15T19:00:00Z" -> 372660
      [] s = "2024-09-15T20:00:00Z" -> 372720
      [] s = "2024-09-15T21:00:00Z" -> 372780
      [] s = "2024-09-15" -> 371520
      [] s = "2024-09-16" -> 372960
      [] s = "2024-09-16 7:00 PM" -> 374100
      [] s = "Room 205" -> 0 - 956701440
      [] OTHER -> NaN

\* new Date(null).getTime(): 1970-01-01T00:00:00Z
UnixEpoch == 0 - 28401120

Empty == [empty |-> TRUE]
Iso(t) == [iso |-> t]
Raw(s) == [raw |-> s]

IsIso(v) == DOMAIN v = {"iso"}

\* s.includes('T') for the strings a date pattern can match, upper case only
StringIncludesT(s) == s \in {"2024-09-15T19:00:00Z", "Thursday", "Tuesday"}

\* start_dt.includes('T'): every toISOString() form has the 'T'
IncludesT(v) ==
    IF IsIso(v) THEN TRUE
    ELSE IF v = Empty THEN FALSE
    ELSE StringIncludesT(v.raw)

\* 2 * 60 * 60 * 1000 ms, in minutes
TwoHours == 2 * 60

(***************************************************************************)
(* parseEventFromText                                                      *)
(***************************************************************************)
\* text.split('\n').map(line => line.trim()).filter(line => line.length > 0)
RECURSIVE SplitLines(_)
SplitLines(text) ==
    IF text = <<>> THEN <<>>
    ELSE LET l == Trim(Head(text))
         IN  IF Length(l) > 0 THEN <<l>> \o SplitLines(Tail(text))
             ELSE SplitLines(Tail(text))

IsTitleCandidate(l) ==
    /\ Length(l) > 5
    /\ ~LowerIncludes(l, "date")
    /\ ~LowerIncludes(l, "time")
    /\ ~LowerIncludes(l, "location")

\* lines.slice(0, 3).filter(...)
TitleCandidates(lines) ==
    SelectSeq(SubSeq(lines, 1, IF Len(lines) < 3 THEN Len(lines) ELSE 3), IsTitleCandidate)

NumDateTimeRegexes == 6
NumLocationRegexes == 4

\* the body of `if (match)` for one regex: new Date(matchedText) never throws
\* (an unparseable string gives an Invalid Date), so the catch branch that
\* stores the raw text is never entered
ApplyDateMatch(st, matchedText) ==
    IF DateParse(matchedText) # NaN
    THEN [st EXCEPT !.start_dt = Iso(DateParse(matchedText)),
                    !.dateFound = TRUE,
                    !.confidence = FAdd(st.confidence, D03)]
    ELSE st

\* for (const regex of dateTimeRegexes), from regex k on
RECURSIVE DateRegexLoop(_, _, _)
DateRegexLoop(st, line, k) ==
    IF k > NumDateTimeRegexes THEN st
    ELSE LET m == DateTimeMatch(line, k)
         IN  DateRegexLoop(IF m # NoMatch THEN ApplyDateMatch(st, m) ELSE st, line, k + 1)

\* the `timeMatch && !timeFound` block
ApplyTimeMatch(st, line) ==
    LET timeStr == TimeMatch(line)
    IN  IF timeStr # NoMatch /\ ~st.timeFound
        THEN LET st1 == [st EXCEPT !.timeFound = TRUE,
                                   !.confidence = FAdd(st.confidence, D02)]
             IN  IF st1.start_dt # Empty /\ ~IncludesT(st1.start_dt)
                 THEN LET combined == DateParse(st1.start_dt.raw \o " " \o timeStr)
                      IN  IF combined # NaN
                          THEN [st1 EXCEPT !.start_dt = Iso(combined)]
                          ELSE st1
                 ELSE st1
        ELSE st

\* for (const line of lines) { date regexes; time }: the locals after the
\* body has run on the first line are bound to `next`, and the loop goes on
\* from them
RECURSIVE DateTimeLoop(_, _)
DateTimeLoop(st, lines) ==
    IF lines = <<>> THEN st
    ELSE CHOOSE result \in
             {DateTimeLoop(next, Tail(lines)) :
                 next \in {ApplyTimeMatch(DateRegexLoop(st, Head(lines), 1), Head(lines))}} :
             TRUE

\* for (const regex of locationRegexes) with its break, from regex k on
RECURSIVE LocationRegexLoop(_, _, _)
LocationRegexLoop(st, line, k) ==
    IF k > NumLocationRegexes THEN st
    ELSE IF LocationMatch(line, k) # NoMatch /\ st.location = ""
         THEN [st EXCEPT !.location = LocationMatch(line, k),
                         !.confidence = FAdd(st.confidence, D02)]
         ELSE LocationRegexLoop(st, line, k + 1)

\* for (const line of lines) { location regexes }, in the same way
RECURSIVE LocationLoop(_, _)
LocationLoop(st, lines) ==
    IF lines = <<>> THEN st
    ELSE CHOOSE result \in
             {LocationLoop(next, Tail(lines)) :
                 next \in {LocationRegexLoop(st, Head(lines), 1)}} :
             TRUE

\* noteLines, kept as the sequence of lines that join('\n') would join
NoteLines(lines) == SelectSeq(lines, IsNoteLine)

\* the title step on the fresh locals (confidence = 0.5)
ExtractTitle(st, cands) ==
    IF Len(cands) > 0
    THEN [st EXCEPT !.title = cands[1], !.confidence = FAdd(st.confidence, D02)]
    ELSE st

\* new Date(start_dt).getTime() of a start the extractor holds
InstantOf(start_dt) ==
    IF IsIso(start_dt) THEN start_dt.iso
    ELSE IF start_dt = Empty THEN NaN
    ELSE DateParse(start_dt.raw)

\* the default end: two hours after a start that contains 'T'; toISOString()
\* throws on an Invalid Date and the catch keeps the end empty
DefaultEnd(start_dt) ==
    IF start_dt # Empty /\ IncludesT(start_dt) /\ InstantOf(start_dt) # NaN
    THEN Iso(InstantOf(start_dt) + TwoHours)
    ELSE Empty

\* mutant: the clamp forgotten
FinishEventUnclamped(st, notes) ==
    [title |-> st.title,
     start_dt |-> st.start_dt,
     end_dt |-> DefaultEnd(st.start_dt),
     location |-> st.location,
     notes |-> notes,
     confidence |-> IF Len(notes) > 0 THEN FAdd(st.confidence, D01) ELSE st.confidence]

\* the notes bonus, the default end time, the clamp and the returned record
FinishEvent(st, notes) ==
    [title |-> st.title,
     start_dt |-> st.start_dt,
     end_dt |-> DefaultEnd(st.start_dt),
     location |-> st.location,
     notes |-> notes,
     confidence |-> FMin(IF Len(notes) > 0 THEN FAdd(st.confidence, D01)
                         ELSE st.confidence, D10)]

InitialLocals ==
    [title |-> "", start_dt |-> Empty, location |-> "",
     dateFound |-> FALSE, timeFound |-> FALSE, confidence |-> D05]

ParseLines(lines) ==
    FinishEvent(LocationLoop(DateTimeLoop(ExtractTitle(InitialLocals, TitleCandidates(lines)),
                                          lines),
                             lines),
                NoteLines(lines))

parseEventFromText(text) == ParseLines(SplitLines(text))

(***************************************************************************)
(* The store, the provider and the handler invocations                     *)
(***************************************************************************)
Users == {"u1", "u2"}
Messages == {"m1", "m2"}

\* messages.user_id: both messages were saved for u1
MessageUser(m) == "u1"

\* argument texts of the functions createDraftEvent and sendQuickReplies
\* when they are examined as functions of the candidate event
\* (SpecCandidate): the text performOCR returns, and texts whose candidate
\* has the other combinations of title, start and confidence
CandidateTexts ==
    { PlaceholderText,            \* title, no start, confidence 1.0
      <<LTitle, LDate>>,          \* title and start
      <<LDate>>,                  \* start, no title
      <<LTitle, LBlank, LTime>>,  \* title, no start
      <<LTime>> }                 \* no title, no start, confidence below 0.8

\* the argument texts parseEventFromText is examined on as a function: every
\* text of at most MaxLines lines of the catalogue, the empty text included,
\* and the text performOCR returns
MaxLines == 4
Texts == UNION {[1..n -> Lines] : n \in 0..MaxLines} \cup {PlaceholderText}

Procs == {"p1", "p2"}

MaxDrafts == 2
MaxCalendar == 2

NoToken == ""

\* the access tokens and refresh tokens the token endpoint can issue
NewTokens == {"ya29.r1", "ya29.r2"}
NewRefreshTokens == {"1//rt2"}

\* the users rows the program can start from: Google connected or not, with
\* or without a refresh token
InitialUserRows ==
    { [google_access_token |-> "ya29.a0", google_refresh_token |-> "1//rt"],
      [google_access_token |-> "ya29.a0", google_refresh_token |-> NoToken],
      [google_access_token |-> NoToken, google_refresh_token |-> NoToken] }

VARIABLES
    users,      \* users rows: the stored Google tokens of each user
    processed,  \* messages.processed of each message
    drafts,     \* draft_events rows in insertion (created_at) order; id = index
    events,     \* events rows in insertion order
    calendar,   \* the events the calendar provider has created; id = index
    inv,        \* the handler invocations in flight, one per execution slot
    stats,      \* history: commit responses given so far
    igUsers     \* the users rows upsertUser has found or created, by their
                \* ig_psid column, in insertion order; id = index

vars == <<users, processed, drafts, events, calendar, inv, stats, igUsers>>

NoDraft == 0
NoUser == 0

\* eventData before parseEventFromText has run
NoEventData ==
    [title |-> "", start_dt |-> Empty, end_dt |-> Empty, location |-> "",
     notes |-> <<>>, confidence |-> D05]

Idle ==
    [pc |-> "idle", kind |-> "none", userId |-> "u1", messageId |-> "m1",
     draftEventId |-> NoDraft, nested |-> FALSE,
     ocrText |-> <<>>, eventData |-> NoEventData, draftId |-> NoDraft,
     draftEvent |-> [id |-> NoDraft],
     user |-> [google_access_token |-> NoToken, google_refresh_token |-> NoToken],
     probeStatus |-> 0, accessToken |-> NoToken, calendarResponse |-> 0,
     refreshToken |-> NoToken,
     tokens |-> [access_token |-> NoToken, refresh_token |-> NoToken],
     submitStatus |-> 0, markError |-> FALSE, eventError |-> FALSE,
     draftUpdateError |-> FALSE,
     nOcr |-> 0, nDraftInsert |-> 0, nInvoke |-> 0,
     nProbe |-> 0, nRefresh |-> 0, nSubmit |-> 0, nEventInsert |-> 0, nDraftUpdate |-> 0,
     igPsid |-> "", existingUser |-> NoUser, selectError |-> FALSE, returned |-> NoUser,
     commit |-> [status |-> 0, error |-> "", eventId |-> 0, upstream |-> 0],
     result |-> [status |-> 0, error |-> ""]]

\* the store with no draft yet
InitEmpty ==
    /\ users \in [Users -> InitialUserRows]
    /\ users["u2"].google_refresh_token # NoToken
    /\ processed = [m \in Messages |-> FALSE]
    /\ drafts = <<>>
    /\ events = <<>>
    /\ calendar = <<>>
    /\ inv = [p \in Procs |-> Idle]
    /\ stats = [success |-> 0, unrecorded |-> 0]
    /\ igUsers = <<>>

(***************************************************************************)
(* Confidence policy and payload                                           *)
(***************************************************************************)
\* mutant: the title gate forgotten
NeedsConfirmationIgnoringTitle(eventData) ==
    \/ FLess(eventData.confidence, D08)
    \/ eventData.start_dt = Empty

\* needs_confirmation: confidence < 0.8 || !start_dt || !title
NeedsConfirmation(eventData) ==
    \/ FLess(eventData.confidence, D08)
    \/ eventData.start_dt = Empty
    \/ eventData.title = ""

\* the branch of sendQuickReplies that invokes create-calendar-event
AutoCreates(eventData) ==
    IF eventData.start_dt = Empty THEN FALSE
    ELSE IF FLess(eventData.confidence, D08) THEN FALSE
    ELSE TRUE

\* new Date(draftEvent.start_dt).getTime() of a stored start_dt
StartInstant(start_dt) ==
    IF IsIso(start_dt) THEN start_dt.iso
    ELSE IF start_dt = Empty THEN UnixEpoch
    ELSE DateParse(start_dt.raw)

\* mutant: the draft's own end not looked at
buildGoogleEventDefaultEnd(draftEvent) ==
    [summary |-> IF draftEvent.title # "" THEN draftEvent.title ELSE "Event from Instagram",
     notes |-> draftEvent.notes,
     start |-> draftEvent.start_dt,
     end |-> Iso(StartInstant(draftEvent.start_dt) + TwoHours),
     location |-> draftEvent.location]

buildGoogleEvent(draftEvent) ==
    [summary |-> IF draftEvent.title # "" THEN draftEvent.title ELSE "Event from Instagram",
     notes |-> draftEvent.notes,
     start |-> draftEvent.start_dt,
     end |-> IF draftEvent.end_dt # Empty THEN draftEvent.end_dt
             ELSE Iso(StartInstant(draftEvent.start_dt) + TwoHours),
     location |-> draftEvent.location]

\* the rows the draft query of create-calendar-event matches, as ids in
\* creation order
DraftQuery(userId, draftEventId) ==
    IF draftEventId # NoDraft
    THEN SelectSeq([i \in 1..Len(drafts) |-> i],
                   LAMBDA i : drafts[i].user_id = userId /\ i = draftEventId)
    ELSE SelectSeq([i \in 1..Len(drafts) |-> i],
                   LAMBDA i : drafts[i].user_id = userId /\ ~drafts[i].needs_confirmation)

\* mutant: the needs_confirmation filter applied to every query
SelectDraftEligibleOnly(userId, draftEventId) ==
    IF draftEventId # NoDraft
    THEN IF /\ draftEventId \in 1..Len(drafts)
            /\ drafts[draftEventId].user_id = userId
            /\ ~drafts[draftEventId].needs_confirmation
         THEN draftEventId ELSE NoDraft
    ELSE IF Len(DraftQuery(userId, NoDraft)) = 0 THEN NoDraft
    ELSE DraftQuery(userId, NoDraft)[Len(DraftQuery(userId, NoDraft))]

\* mutant: the needs_confirmation filter left out of the query without id
SelectDraftLatestOfUser(userId, draftEventId) ==
    IF draftEventId # NoDraft
    THEN IF draftEventId \in 1..Len(drafts) /\ drafts[draftEventId].user_id = userId
         THEN draftEventId ELSE NoDraft
    ELSE IF \E i \in 1..Len(drafts) : drafts[i].user_id = userId
         THEN CHOOSE i \in 1..Len(drafts) :
                  /\ drafts[i].user_id = userId
                  /\ \A j \in 1..Len(drafts) : drafts[j].user_id = userId => j <= i
         ELSE NoDraft

\* mutant: the user_id filter left out of the query with an id
SelectDraftOfAnyUser(userId, draftEventId) ==
    IF draftEventId # NoDraft
    THEN IF draftEventId \in 1..Len(drafts) THEN draftEventId ELSE NoDraft
    ELSE IF Len(DraftQuery(userId, NoDraft)) = 0 THEN NoDraft
    ELSE DraftQuery(userId, NoDraft)[Len(DraftQuery(userId, NoDraft))]

\* .order('created_at', {ascending: false}).limit(1).maybeSingle(): the row
\* selected, or NoDraft
SelectDraft(userId, draftEventId) ==
    LET rows == DraftQuery(userId, draftEventId)
    IN  IF Len(rows) = 0 THEN NoDraft ELSE rows[Len(rows)]

(***************************************************************************)
(* Bounds on the work in flight                                            *)
(***************************************************************************)
OcrPcs == {"ocr", "createDraft", "markProcessed", "quickReplies"}
\* the positions of the /refresh handler of google-auth
RefreshPcs == {"readRefreshToken", "tokenRequest", "storeToken"}

\* the positions of create-calendar-event, the /refresh execution that
\* getValidAccessToken invokes and waits for included
CommitPcs ==
    {"select", "getUser", "probe", "refresh", "submit", "insertEvent", "updateDraft"}
        \cup RefreshPcs

\* invocations that may still insert a draft / still submit to the provider
PendingInserts == Cardinality({p \in Procs : inv[p].pc \in {"ocr", "createDraft"}})
PendingSubmits ==
    Cardinality({p \in Procs :
                    /\ inv[p].kind \in {"ocr", "call", "commit"}
                    /\ inv[p].pc \in OcrPcs \cup {"select", "getUser", "probe", "refresh", "submit"}
                                          \cup RefreshPcs})

Free(p) == inv[p].pc \in {"idle", "done"}

\* a response once returned, the execution that gave it is gone
Swept == [q \in Procs |-> IF inv[q].pc = "done" THEN Idle ELSE inv[q]]

\* the draft_events row with id i, as a query returns it
DraftRow(i) ==
    [id |-> i, user_id |-> drafts[i].user_id,
     source_message_id |-> drafts[i].source_message_id,
     title |-> drafts[i].title, start_dt |-> drafts[i].start_dt,
     end_dt |-> drafts[i].end_dt, location |-> drafts[i].location,
     notes |-> drafts[i].notes, confidence |-> drafts[i].confidence,
     needs_confirmation |-> drafts[i].needs_confirmation,
     ocr_text |-> drafts[i].ocr_text]

\* the success response of process-ocr: sendQuickReplies does not look at
\* the response of the commit it invoked, so it is given whatever that was
OcrSuccess == [status |-> 200, error |-> ""]

\* the catch block of create-calendar-event: a 500 response carrying the
\* message; control returns to the invoking sendQuickReplies when nested
CommitError(p, message, status) ==
    LET r == [status |-> 500, error |-> message, eventId |-> 0, upstream |-> status]
    IN  [inv[p] EXCEPT !.commit = r,
                       !.pc = "done",
                       !.result = IF inv[p].nested THEN OcrSuccess
                                  ELSE [status |-> 500, error |-> message]]

(***************************************************************************)
(* process-ocr                                                             *)
(***************************************************************************)
\* a request {userId, messageId, mediaUrl} reaches the process-ocr handler
\* (triggerOCRProcessing of the webhook, or any repeated delivery)
StartOcr(p, m) ==
    /\ Free(p)
    /\ Len(drafts) + PendingInserts < MaxDrafts
    /\ Len(calendar) + PendingSubmits < MaxCalendar
    /\ inv' = [Swept EXCEPT ![p] = [Idle EXCEPT !.pc = "ocr", !.kind = "ocr",
                                              !.userId = MessageUser(m), !.messageId = m]]
    /\ UNCHANGED <<users, processed, drafts, events, calendar, stats, igUsers>>

\* `ocrText = await performOCR(mediaUrl)` then parseEventFromText(ocrText):
\* the download fails and performOCR throws, or, whatever the image, the text
\* returned is the placeholder, which is parsed
performOCR(p) ==
    /\ inv[p].pc = "ocr"
    /\ \/ inv' = [Swept EXCEPT ![p].pc = "done", ![p].nOcr = @ + 1,
                             ![p].result = [status |-> 500, error |-> "Failed to download image"]]
       \/ inv' = [Swept EXCEPT ![p].pc = "createDraft", ![p].nOcr = @ + 1,
                              ![p].ocrText = PlaceholderText,
                              ![p].eventData = parseEventFromText(PlaceholderText)]
    /\ UNCHANGED <<users, processed, drafts, events, calendar, stats, igUsers>>

\* the row createDraftEvent inserts
NewDraft(userId, messageId, eventData, ocrText) ==
    [user_id |-> userId, source_message_id |-> messageId,
     title |-> eventData.title, start_dt |-> eventData.start_dt,
     end_dt |-> eventData.end_dt, location |-> eventData.location,
     notes |-> eventData.notes, confidence |-> eventData.confidence,
     needs_confirmation |-> NeedsConfirmation(eventData),
     ocr_text |-> ocrText]

\* mutant: the insert error logged and not thrown
DraftInsertErrorLogged(p) ==
    [inv[p] EXCEPT !.pc = "markProcessed", !.nDraftInsert = @ + 1]

\* mutant: the insert error swallowed and the handler gone on to the replies
DraftInsertErrorSkipped(p) ==
    [inv[p] EXCEPT !.pc = "quickReplies", !.nDraftInsert = @ + 1]

\* mutant: the insert tried again after an error
DraftInsertErrorRetried(p) ==
    [inv[p] EXCEPT !.nDraftInsert = @ + 1]

\* `if (error) { ...; throw error }` of createDraftEvent, caught by the
\* handler: a 500 response carrying the store's message
DraftInsertErrorThrown(p) ==
    [inv[p] EXCEPT !.pc = "done", !.nDraftInsert = @ + 1,
                   !.result = [status |-> 500, error |-> "insert failed"]]

createDraftEvent(p) ==
    /\ inv[p].pc = "createDraft"
    /\ \/ /\ inv' = [Swept EXCEPT ![p] = DraftInsertErrorThrown(p)]
          /\ UNCHANGED drafts
       \/ /\ drafts' = Append(drafts, NewDraft(inv[p].userId, inv[p].messageId,
                                            inv[p].eventData, inv[p].ocrText))
          /\ inv' = [Swept EXCEPT ![p].pc = "markProcessed", ![p].nDraftInsert = @ + 1,
                                ![p].draftId = Len(drafts) + 1]
    /\ UNCHANGED <<users, processed, events, calendar, stats, igUsers>>

\* messages.update({processed: true}).eq('id', messageId); the returned
\* error is not looked at
MarkProcessed(p) ==
    /\ inv[p].pc = "markProcessed"
    /\ \/ /\ processed' = [processed EXCEPT ![inv[p].messageId] = TRUE]
          /\ inv' = [Swept EXCEPT ![p].pc = "quickReplies"]
       \/ /\ UNCHANGED processed
          /\ inv' = [Swept EXCEPT ![p].pc = "quickReplies", ![p].markError = TRUE]
    /\ UNCHANGED <<users, drafts, events, calendar, stats, igUsers>>

\* sendQuickReplies: logs, or invokes create-calendar-event with {userId}
sendQuickReplies(p) ==
    /\ inv[p].pc = "quickReplies"
    /\ IF AutoCreates(inv[p].eventData)
       THEN inv' = [Swept EXCEPT ![p].pc = "select", ![p].nested = TRUE,
                               ![p].draftEventId = NoDraft, ![p].nInvoke = @ + 1]
       ELSE inv' = [Swept EXCEPT ![p].pc = "done", ![p].result = OcrSuccess]
    /\ UNCHANGED <<users, processed, drafts, events, calendar, stats, igUsers>>

(***************************************************************************)
(* create-calendar-event                                                   *)
(***************************************************************************)
\* a request {userId, draftEventId?} reaches create-calendar-event: the SAVE
\* quick reply (no id) or the dashboard's approveEvent (an id)
StartCommit(p, u, d) ==
    /\ Free(p)
    /\ Len(calendar) + PendingSubmits < MaxCalendar
    /\ inv' = [Swept EXCEPT ![p] = [Idle EXCEPT !.pc = "select", !.kind = "commit",
                                              !.userId = u, !.draftEventId = d]]
    /\ UNCHANGED <<users, processed, drafts, events, calendar, stats, igUsers>>

NoError == ""

\* response.ok of a fetch response
Ok(status) == status \in 200..299

\* mutant: the start_dt check forgotten
DraftCheckWithoutStart(d) ==
    IF d = NoDraft THEN "No draft event found" ELSE NoError

\* mutant: a draft that already has an events row is refused
DraftCheckOncePerDraft(d) ==
    IF d = NoDraft THEN "No draft event found"
    ELSE IF drafts[d].start_dt = Empty THEN "Event start time is required"
    ELSE IF \E i \in 1..Len(events) : events[i].draft_event_id = d
    THEN "Draft already committed"
    ELSE NoError

\* mutant: a draft another execution has read and not finished with is
\* refused
DraftCheckLocked(d) ==
    IF d = NoDraft THEN "No draft event found"
    ELSE IF drafts[d].start_dt = Empty THEN "Event start time is required"
    ELSE IF \E q \in Procs : inv[q].pc \in CommitPcs \ {"select"} /\ inv[q].draftEvent.id = d
    THEN "Draft is being committed"
    ELSE NoError

\* the two checks on the result of the draft query: the message thrown
DraftCheck(d) ==
    IF d = NoDraft THEN "No draft event found"
    ELSE IF drafts[d].start_dt = Empty THEN "Event start time is required"
    ELSE NoError

\* the draft query and the checks on its result
CommitSelect(p) ==
    /\ inv[p].pc = "select"
    /\ \/ inv' = [Swept EXCEPT ![p] = CommitError(p, "Database error", 0)]
       \/ \E d \in {SelectDraft(inv[p].userId, inv[p].draftEventId)} :
             IF DraftCheck(d) # NoError
             THEN inv' = [Swept EXCEPT ![p] =
                             [CommitError(p, DraftCheck(d), 0)
                                 EXCEPT !.draftEvent = IF d = NoDraft THEN @ ELSE DraftRow(d)]]
             ELSE inv' = [Swept EXCEPT ![p].pc = "getUser", ![p].draftEvent = DraftRow(d)]
    /\ UNCHANGED <<users, processed, drafts, events, calendar, stats, igUsers>>

\* getValidAccessToken: the read of the users row
GetUser(p) ==
    /\ inv[p].pc = "getUser"
    /\ \/ inv' = [Swept EXCEPT ![p] = CommitError(p, "No Google access token found. Please connect your Google Calendar.", 0)]
       \/ IF users[inv[p].userId].google_access_token = NoToken
          THEN inv' = [Swept EXCEPT ![p] = CommitError(p, "No Google access token found. Please connect your Google Calendar.", 0)]
          ELSE inv' = [Swept EXCEPT ![p].pc = "probe", ![p].user = users[inv[p].userId]]
    /\ UNCHANGED <<users, processed, drafts, events, calendar, stats, igUsers>>

ProbeStatuses == {200, 401, 403}

\* mutant: the `!testResponse.ok` check forgotten
ProbeBranchWithoutOkCheck(status, user) ==
    IF status = 401 /\ user.google_refresh_token # NoToken THEN "refresh" ELSE "valid"

\* the branch getValidAccessToken takes on the status of the test request
ProbeBranch(status, user) ==
    IF status = 401 /\ user.google_refresh_token # NoToken THEN "refresh"
    ELSE IF ~Ok(status) THEN "invalid"
    ELSE "valid"

\* getValidAccessToken: the test request and the branches on its status
Probe(p) ==
    /\ inv[p].pc = "probe"
    /\ \E status \in ProbeStatuses :
          IF ProbeBranch(status, inv[p].user) = "refresh"
          THEN inv' = [Swept EXCEPT ![p].pc = "refresh", ![p].nProbe = @ + 1,
                                  ![p].probeStatus = status]
          ELSE IF ProbeBranch(status, inv[p].user) = "invalid"
          THEN inv' = [Swept EXCEPT ![p] =
                          [CommitError(p, "Invalid Google access token", status)
                              EXCEPT !.nProbe = @ + 1, !.probeStatus = status]]
          ELSE inv' = [Swept EXCEPT ![p].pc = "submit", ![p].nProbe = @ + 1,
                                  ![p].probeStatus = status,
                                  ![p].accessToken = inv[p].user.google_access_token]
    /\ UNCHANGED <<users, processed, drafts, events, calendar, stats, igUsers>>

\* mutant: the stored token returned after a refresh
RefreshedTokenStale(user, data) == user.google_access_token

\* `const { access_token } = await refreshResponse.data; return access_token`
RefreshedToken(user, data) == data.access_token

\* getValidAccessToken: supabase.functions.invoke('google-auth/refresh'),
\* which starts a /refresh execution for the user and waits for its response
Refresh(p) ==
    /\ inv[p].pc = "refresh"
    /\ inv' = [Swept EXCEPT ![p].pc = "readRefreshToken", ![p].nRefresh = @ + 1]
    /\ UNCHANGED <<users, processed, drafts, events, calendar, stats, igUsers>>

TokenStatuses == {200, 400}

\* the catch block of /refresh: a 500 response carrying the message, on which
\* an invoking getValidAccessToken throws
RefreshError(p, message) ==
    IF inv[p].kind = "refresh"
    THEN [inv[p] EXCEPT !.pc = "done", !.result = [status |-> 500, error |-> message]]
    ELSE CommitError(p, "Failed to refresh Google access token", 0)

\* /refresh: the read of google_refresh_token and the check on it
ReadRefreshToken(p) ==
    /\ inv[p].pc = "readRefreshToken"
    /\ \/ inv' = [Swept EXCEPT ![p] = RefreshError(p, "No refresh token found")]
       \/ IF users[inv[p].userId].google_refresh_token = NoToken
          THEN inv' = [Swept EXCEPT ![p] = RefreshError(p, "No refresh token found")]
          ELSE inv' = [Swept EXCEPT ![p].pc = "tokenRequest",
                                  ![p].refreshToken =
                                      users[inv[p].userId].google_refresh_token]
    /\ UNCHANGED <<users, processed, drafts, events, calendar, stats, igUsers>>

\* /refresh: the request to the token endpoint and the check of
\* tokenResponse.ok
TokenRequest(p) ==
    /\ inv[p].pc = "tokenRequest"
    /\ \E status \in TokenStatuses :
          IF ~Ok(status)
          THEN inv' = [Swept EXCEPT ![p] = RefreshError(p, "Token refresh failed")]
          ELSE \E t \in NewTokens :
                  inv' = [Swept EXCEPT ![p].pc = "storeToken",
                                     ![p].tokens = [access_token |-> t,
                                                    refresh_token |-> NoToken]]
    /\ UNCHANGED <<users, processed, drafts, events, calendar, stats, igUsers>>

\* mutant: the update also clears the refresh token
TokenUpdateClearingRefresh(tokens) ==
    [google_access_token |-> tokens.access_token, google_refresh_token |-> NoToken]

\* the column values the users update of /refresh writes
TokenUpdate(tokens) == [google_access_token |-> tokens.access_token]

\* a row after an update of the columns of `values`
Updated(row, values) ==
    [c \in DOMAIN row |-> IF c \in DOMAIN values THEN values[c] ELSE row[c]]

\* the response {access_token} of /refresh: the answer to a direct request,
\* or the token getValidAccessToken returns to the commit that invoked it
RefreshReturn(p) ==
    IF inv[p].kind = "refresh"
    THEN [inv[p] EXCEPT !.pc = "done", !.result = [status |-> 200, error |-> ""]]
    ELSE [inv[p] EXCEPT !.pc = "submit",
                        !.accessToken =
                            RefreshedToken(inv[p].user,
                                           [access_token |-> inv[p].tokens.access_token])]

\* /refresh: users.update({google_access_token}).eq('id', userId) and the
\* response
StoreToken(p) ==
    /\ inv[p].pc = "storeToken"
    /\ \/ /\ inv' = [Swept EXCEPT ![p] = RefreshError(p, "update failed")]
          /\ UNCHANGED users
       \/ /\ users' = [users EXCEPT ![inv[p].userId] =
                          Updated(@, TokenUpdate(inv[p].tokens))]
          /\ inv' = [Swept EXCEPT ![p] = RefreshReturn(p)]
    /\ UNCHANGED <<processed, drafts, events, calendar, stats, igUsers>>

SubmitStatuses == {200, 403}

\* mutant: the `!response.ok` check forgotten
CalendarApiErrorNever(status) == FALSE

\* createGoogleCalendarEvent throws on this status
CalendarApiError(status) == ~Ok(status)

\* buildGoogleEvent and createGoogleCalendarEvent
createGoogleCalendarEvent(p) ==
    /\ inv[p].pc = "submit"
    /\ \E status \in SubmitStatuses :
          IF CalendarApiError(status)
          THEN /\ inv' = [Swept EXCEPT ![p] =
                             [CommitError(p, "Calendar API error", status)
                                 EXCEPT !.nSubmit = @ + 1, !.submitStatus = status]]
               /\ UNCHANGED calendar
          ELSE /\ calendar' = Append(calendar,
                                [draft |-> inv[p].draftEvent.id,
                                 body |-> buildGoogleEvent(inv[p].draftEvent)])
               /\ inv' = [Swept EXCEPT ![p].pc = "insertEvent", ![p].nSubmit = @ + 1,
                                     ![p].submitStatus = status,
                                     ![p].calendarResponse = Len(calendar) + 1]
    /\ UNCHANGED <<users, processed, drafts, events, stats, igUsers>>

\* mutant: the insert error thrown
EventErrorThrown(p) ==
    [CommitError(p, "Error saving event record", 0)
        EXCEPT !.nEventInsert = @ + 1, !.eventError = TRUE]

\* `if (eventError)`: the error is logged and the handler goes on
EventErrorLogged(p) ==
    [inv[p] EXCEPT !.pc = "updateDraft", !.nEventInsert = @ + 1, !.eventError = TRUE]

\* mutant: the record refers to the draft id of the request
EventRecordOfRequest(p) ==
    [user_id |-> inv[p].userId,
     draft_event_id |-> inv[p].draftEventId,
     google_event_id |-> inv[p].calendarResponse,
     request_payload |-> buildGoogleEvent(inv[p].draftEvent)]

\* the row the handler inserts into events
EventRecord(p) ==
    [user_id |-> inv[p].userId,
     draft_event_id |-> inv[p].draftEvent.id,
     google_event_id |-> inv[p].calendarResponse,
     request_payload |-> buildGoogleEvent(inv[p].draftEvent)]

\* the events insert
InsertEvent(p) ==
    /\ inv[p].pc = "insertEvent"
    /\ \/ /\ inv' = [Swept EXCEPT ![p] = EventErrorLogged(p)]
          /\ UNCHANGED events
       \/ /\ events' = Append(events, EventRecord(p))
          /\ inv' = [Swept EXCEPT ![p].pc = "updateDraft", ![p].nEventInsert = @ + 1]
    /\ UNCHANGED <<users, processed, drafts, calendar, stats, igUsers>>

\* the success response of create-calendar-event
CommitSuccess(p, failed) ==
    [inv[p] EXCEPT !.commit = [status |-> 200, error |-> "",
                               eventId |-> inv[p].calendarResponse, upstream |-> 200],
                   !.nDraftUpdate = @ + 1,
                   !.draftUpdateError = failed,
                   !.pc = "done",
                   !.result = IF inv[p].nested THEN OcrSuccess
                              ELSE [status |-> 200, error |-> ""]]

\* mutant: the error of the draft update thrown
AfterDraftUpdateThrowing(p, failed) ==
    IF failed
    THEN [CommitError(p, "Error updating draft", 0)
             EXCEPT !.nDraftUpdate = @ + 1, !.draftUpdateError = TRUE]
    ELSE CommitSuccess(p, failed)

\* the handler after the draft update: its error is not looked at
AfterDraftUpdate(p, failed) == CommitSuccess(p, failed)

\* mutant: the flag written the wrong way round
DraftUpdateSetsFlag == [needs_confirmation |-> TRUE]

\* the column values the handler's draft update writes
DraftUpdate == [needs_confirmation |-> FALSE]

\* draft_events.update({needs_confirmation: false}).eq('id', draftEvent.id)
\* and the response
UpdateDraft(p) ==
    /\ inv[p].pc = "updateDraft"
    /\ \E failed \in BOOLEAN :
          /\ drafts' = IF failed THEN drafts
                       ELSE [drafts EXCEPT ![inv[p].draftEvent.id].needs_confirmation =
                                                 DraftUpdate.needs_confirmation]
          /\ inv' = [Swept EXCEPT ![p] = AfterDraftUpdate(p, failed)]
    /\ stats' = IF inv'[p].commit.status = 200
                THEN [success |-> stats.success + 1,
                      unrecorded |-> stats.unrecorded + (IF inv[p].eventError THEN 1 ELSE 0)]
                ELSE stats
    /\ UNCHANGED <<users, processed, events, calendar, igUsers>>

\* a draft_events row that process-ocr stored for message m and whose start
\* has since been set: by the confirm_date action of update-draft-event,
\* which the webhook invokes on a CONFIRM_DATE quick reply, or by the owner's
\* own update of the row, which the policy on draft_events (FOR ALL) permits;
\* the row is still awaiting confirmation or not
ConfirmedDraft(m, flag) ==
    [NewDraft(MessageUser(m), m, parseEventFromText(PlaceholderText), PlaceholderText)
        EXCEPT !.start_dt = Iso(DateParse("2024-09-15T19:00:00Z")),
               !.needs_confirmation = flag]

\* the draft_events tables a run starts from: empty, or with such rows
StoredDrafts ==
    {<<>>}
        \cup {<<ConfirmedDraft("m1", f)>> : f \in BOOLEAN}
        \cup {<<ConfirmedDraft("m1", f), ConfirmedDraft("m2", g)>> : f, g \in BOOLEAN}

Init ==
    /\ users \in [Users -> InitialUserRows]
    /\ users["u2"].google_refresh_token # NoToken
    /\ drafts \in StoredDrafts
    /\ processed = [m \in Messages |->
                       \E i \in 1..Len(drafts) : drafts[i].source_message_id = m]
    /\ events = <<>>
    /\ calendar = <<>>
    /\ inv = [p \in Procs |-> Idle]
    /\ stats = [success |-> 0, unrecorded |-> 0]
    /\ igUsers = <<>>

\* one step of the handler invocation running in slot p
Step(p) ==
    \/ \E m \in Messages : StartOcr(p, m)
    \/ performOCR(p)
    \/ createDraftEvent(p)
    \/ MarkProcessed(p)
    \/ sendQuickReplies(p)
    \/ \E u \in Users, d \in 0..MaxDrafts : StartCommit(p, u, d)
    \/ CommitSelect(p)
    \/ GetUser(p)
    \/ Probe(p)
    \/ Refresh(p)
    \/ ReadRefreshToken(p)
    \/ TokenRequest(p)
    \/ StoreToken(p)
    \/ createGoogleCalendarEvent(p)
    \/ InsertEvent(p)
    \/ UpdateDraft(p)

\* requests handled one after the other
Next == Step("p1")

Spec == Init /\ [][Next]_vars

\* requests handled by independent executions that interleave at every
\* store access and external call
NextConcurrent == \E p \in Procs : Step(p)

SpecConcurrent == Init /\ [][NextConcurrent]_vars

\* the continuation of the invocation in slot p: the step that runs when the
\* awaited store access or external call returns
Run(p) ==
    \/ performOCR(p)
    \/ createDraftEvent(p)
    \/ MarkProcessed(p)
    \/ sendQuickReplies(p)
    \/ CommitSelect(p)
    \/ GetUser(p)
    \/ Probe(p)
    \/ Refresh(p)
    \/ ReadRefreshToken(p)
    \/ TokenRequest(p)
    \/ StoreToken(p)
    \/ createGoogleCalendarEvent(p)
    \/ InsertEvent(p)
    \/ UpdateDraft(p)

\* requests handled one after the other, every awaited call returning
SpecFair == Spec /\ WF_vars(Run("p1"))

\* draft_events rows as a commit may find them: with or without title, end
\* and location, confirmed or not
SeedDrafts ==
    [user_id : {"u1"}, source_message_id : {"m1"},
     title : {"", LTitle},
     start_dt : {Iso(DateParse("2024-09-15T19:00:00Z")), Iso(DateParse("2024-09-16"))},
     end_dt : {Empty, Iso(DateParse("2024-09-15T20:00:00Z"))},
     location : {"", "Room 205"},
     notes : {<<>>}, confidence : {D05},
     needs_confirmation : BOOLEAN, ocr_text : {<<>>}]

InitBuild ==
    /\ users \in [Users -> InitialUserRows]
    /\ users["u2"].google_refresh_token # NoToken
    /\ processed = [m \in Messages |-> FALSE]
    /\ drafts \in {<<row>> : row \in SeedDrafts}
    /\ events = <<>>
    /\ calendar = <<>>
    /\ inv = [p \in Procs |-> Idle]
    /\ stats = [success |-> 0, unrecorded |-> 0]
    /\ igUsers = <<>>

\* create-calendar-event on every draft of SeedDrafts
NextBuild ==
    \/ \E u \in Users, d \in 0..MaxDrafts : StartCommit("p1", u, d)
    \/ CommitSelect("p1")
    \/ GetUser("p1")
    \/ Probe("p1")
    \/ Refresh("p1")
    \/ ReadRefreshToken("p1")
    \/ TokenRequest("p1")
    \/ StoreToken("p1")
    \/ createGoogleCalendarEvent("p1")
    \/ InsertEvent("p1")
    \/ UpdateDraft("p1")

SpecBuild == InitBuild /\ [][NextBuild]_vars

\* one step of a create-calendar-event execution in slot p, requested for u1
CommitStep(p) ==
    \/ \E d \in 0..MaxDrafts : StartCommit(p, "u1", d)
    \/ CommitSelect(p)
    \/ GetUser(p)
    \/ Probe(p)
    \/ Refresh(p)
    \/ ReadRefreshToken(p)
    \/ TokenRequest(p)
    \/ StoreToken(p)
    \/ createGoogleCalendarEvent(p)
    \/ InsertEvent(p)
    \/ UpdateDraft(p)

\* concurrent commits: the users have connected Google with a refresh token
\* and one draft with a title and a start stands in the table
InitCommitRace ==
    /\ InitBuild
    /\ \A u \in Users : users[u].google_refresh_token # NoToken
    /\ drafts[1].title = LTitle
    /\ drafts[1].location = ""
    /\ drafts[1].end_dt = Empty

\* two create-calendar-event executions that interleave at every store
\* access and external call
NextCommitRace == \E p \in Procs : CommitStep(p)

SpecCommitRace == InitCommitRace /\ [][NextCommitRace]_vars

(***************************************************************************)
(* The functions of process-ocr on given arguments                         *)
(***************************************************************************)
\* parseEventFromText(text) is to be applied to an argument text
InitParse ==
    /\ users = [u \in Users |-> [google_access_token |-> NoToken,
                                 google_refresh_token |-> NoToken]]
    /\ processed = [m \in Messages |-> FALSE]
    /\ drafts = <<>>
    /\ events = <<>>
    /\ calendar = <<>>
    /\ \E text \in Texts :
          inv = [p \in Procs |->
                    IF p = "p1"
                    THEN [Idle EXCEPT !.pc = "text", !.kind = "call", !.ocrText = text]
                    ELSE Idle]
    /\ stats = [success |-> 0, unrecorded |-> 0]
    /\ igUsers = <<>>

\* the application parseEventFromText(text)
ParseText(p) ==
    /\ inv[p].pc = "text"
    /\ inv' = [inv EXCEPT ![p].pc = "parsed",
                          ![p].eventData = parseEventFromText(inv[p].ocrText)]
    /\ UNCHANGED <<users, processed, drafts, events, calendar, stats, igUsers>>

NextParse == ParseText("p1")

\* the function parseEventFromText on every text of Texts
SpecParse == InitParse /\ [][NextParse]_vars

\* a call createDraftEvent(userId, messageId, eventData, ocrText) whose
\* eventData is the candidate parseEventFromText gives for a text of
\* CandidateTexts
CallCreateDraftEvent(p, m, text) ==
    /\ Free(p)
    /\ Len(drafts) + PendingInserts < MaxDrafts
    /\ Len(calendar) + PendingSubmits < MaxCalendar
    /\ inv' = [Swept EXCEPT ![p] = [Idle EXCEPT !.pc = "createDraft", !.kind = "call",
                                              !.userId = MessageUser(m), !.messageId = m,
                                              !.ocrText = text,
                                              !.eventData = parseEventFromText(text)]]
    /\ UNCHANGED <<users, processed, drafts, events, calendar, stats, igUsers>>

\* createDraftEvent has returned the draft id: the call
\* sendQuickReplies(userId, eventData) with the same candidate
CallSendQuickReplies(p) ==
    /\ inv[p].kind = "call"
    /\ inv[p].pc = "markProcessed"
    /\ inv' = [Swept EXCEPT ![p].pc = "quickReplies"]
    /\ UNCHANGED <<users, processed, drafts, events, calendar, stats, igUsers>>

\* one step of the calls createDraftEvent and sendQuickReplies on one
\* candidate in slot p, the create-calendar-event execution that
\* sendQuickReplies invokes and waits for included
CandidateStep(p) ==
    \/ \E m \in Messages, text \in CandidateTexts : CallCreateDraftEvent(p, m, text)
    \/ createDraftEvent(p)
    \/ CallSendQuickReplies(p)
    \/ sendQuickReplies(p)
    \/ CommitSelect(p)
    \/ GetUser(p)
    \/ Probe(p)
    \/ Refresh(p)
    \/ ReadRefreshToken(p)
    \/ TokenRequest(p)
    \/ StoreToken(p)
    \/ createGoogleCalendarEvent(p)
    \/ InsertEvent(p)
    \/ UpdateDraft(p)

NextCandidate == CandidateStep("p1")

\* createDraftEvent and sendQuickReplies as functions of the candidate
\* event, called one pair after the other
SpecCandidate == InitEmpty /\ [][NextCandidate]_vars

InitCandidateRace ==
    /\ InitEmpty
    /\ \A u \in Users : users[u].google_refresh_token # NoToken

NextCandidateRace == \E p \in Procs : CandidateStep(p)

\* two such pairs of calls that interleave at every store access and
\* external call
SpecCandidateRace == InitCandidateRace /\ [][NextCandidateRace]_vars
(***************************************************************************)
(* google-auth: /refresh requested directly, and /callback                 *)
(***************************************************************************)
\* a POST {userId} reaches google-auth/refresh
StartRefresh(p, u) ==
    /\ Free(p)
    /\ inv' = [Swept EXCEPT ![p] = [Idle EXCEPT !.pc = "readRefreshToken",
                                              !.kind = "refresh", !.userId = u]]
    /\ UNCHANGED <<users, processed, drafts, events, calendar, stats, igUsers>>

CallbackPcs == {"tokenExchange", "userInfo", "storeTokens"}

\* Google redirects to /callback with a code and state = the user's id
StartCallback(p, u) ==
    /\ Free(p)
    /\ inv' = [Swept EXCEPT ![p] = [Idle EXCEPT !.pc = "tokenExchange",
                                              !.kind = "callback", !.userId = u]]
    /\ UNCHANGED <<users, processed, drafts, events, calendar, stats, igUsers>>

\* the catch block of /callback: the error page with status 500
CallbackError(p, message) ==
    [inv[p] EXCEPT !.pc = "done", !.result = [status |-> 500, error |-> message]]

\* /callback: the exchange of the code for tokens and the check of
\* tokenResponse.ok
TokenExchange(p) ==
    /\ inv[p].pc = "tokenExchange"
    /\ \E status \in TokenStatuses :
          IF ~Ok(status)
          THEN inv' = [Swept EXCEPT ![p] = CallbackError(p, "Token exchange failed")]
          ELSE \E t \in NewTokens, r \in NewRefreshTokens :
                  inv' = [Swept EXCEPT ![p].pc = "userInfo",
                                     ![p].tokens = [access_token |-> t,
                                                    refresh_token |-> r]]
    /\ UNCHANGED <<users, processed, drafts, events, calendar, stats, igUsers>>

\* /callback: the userinfo request (google_sub is not held); a failed fetch
\* throws
UserInfo(p) ==
    /\ inv[p].pc = "userInfo"
    /\ \/ inv' = [Swept EXCEPT ![p] = CallbackError(p, "fetch failed")]
       \/ inv' = [Swept EXCEPT ![p].pc = "storeTokens"]
    /\ UNCHANGED <<users, processed, drafts, events, calendar, stats, igUsers>>

\* the column values the users update of /callback writes
CallbackUpdate(tokens) ==
    [google_access_token |-> tokens.access_token,
     google_refresh_token |-> tokens.refresh_token]

\* /callback: users.update({google_sub, google_access_token,
\* google_refresh_token}).eq('id', state) and the response
StoreTokens(p) ==
    /\ inv[p].pc = "storeTokens"
    /\ \/ /\ inv' = [Swept EXCEPT ![p] = CallbackError(p, "update failed")]
          /\ UNCHANGED users
       \/ /\ users' = [users EXCEPT ![inv[p].userId] =
                          Updated(@, CallbackUpdate(inv[p].tokens))]
          /\ inv' = [Swept EXCEPT ![p].pc = "done",
                                ![p].result = [status |-> 200, error |-> ""]]
    /\ UNCHANGED <<processed, drafts, events, calendar, stats, igUsers>>

\* one step of a /refresh or /callback execution in slot p
RefreshStep(p) ==
    \/ \E u \in Users : StartRefresh(p, u)
    \/ ReadRefreshToken(p)
    \/ TokenRequest(p)
    \/ StoreToken(p)
    \/ \E u \in Users : StartCallback(p, u)
    \/ TokenExchange(p)
    \/ UserInfo(p)
    \/ StoreTokens(p)

\* google-auth requests handled by executions that interleave at every store
\* access and external call
NextRefresh == \E p \in Procs : RefreshStep(p)

SpecRefresh == InitEmpty /\ [][NextRefresh]_vars

(***************************************************************************)
(* instagram-webhook: upsertUser                                           *)
(***************************************************************************)
Psids == {"psid-1", "psid-2"}

\* the ids of the users rows whose ig_psid is psid
UsersWithPsid(psid) == {i \in 1..Len(igUsers) : igUsers[i].ig_psid = psid}

\* a delivery from sender psid reaches upsertUser
StartUpsert(p, psid) ==
    /\ Free(p)
    /\ inv' = [Swept EXCEPT ![p] = [Idle EXCEPT !.pc = "selectUser", !.kind = "upsert",
                                              !.igPsid = psid]]
    /\ UNCHANGED <<users, processed, drafts, events, calendar, stats, igUsers>>

\* select('id').eq('ig_psid', igPsid).maybeSingle(): only `data` is looked at,
\* so a failed select is taken as no existing user
SelectUser(p) ==
    /\ inv[p].pc = "selectUser"
    /\ \/ inv' = [Swept EXCEPT ![p].pc = "insertUser", ![p].selectError = TRUE]
       \/ IF UsersWithPsid(inv[p].igPsid) # {}
          THEN \E i \in UsersWithPsid(inv[p].igPsid) :
                  inv' = [Swept EXCEPT ![p].pc = "updateLastSeen", ![p].existingUser = i]
          ELSE inv' = [Swept EXCEPT ![p].pc = "insertUser"]
    /\ UNCHANGED <<users, processed, drafts, events, calendar, stats, igUsers>>

\* update({last_seen}).eq('id', existingUser.id), its result not looked at,
\* and `return existingUser.id` (the timestamp columns are not held)
UpdateLastSeen(p) ==
    /\ inv[p].pc = "updateLastSeen"
    /\ inv' = [Swept EXCEPT ![p].pc = "done", ![p].returned = inv[p].existingUser,
                          ![p].result = [status |-> 200, error |-> ""]]
    /\ UNCHANGED <<users, processed, drafts, events, calendar, stats, igUsers>>

\* mutant: the column without its UNIQUE constraint
UniqueViolationNever(psid) == FALSE

\* ig_psid TEXT UNIQUE: an insert of a second row with this value is rejected
UniqueViolation(psid) == UsersWithPsid(psid) # {}

\* insert({ig_psid, first_seen, last_seen}).select('id').single(); an error
\* is thrown to the caller
InsertUser(p) ==
    /\ inv[p].pc = "insertUser"
    /\ \/ /\ inv' = [Swept EXCEPT ![p].pc = "done",
                                ![p].result = [status |-> 500, error |-> "insert failed"]]
          /\ UNCHANGED igUsers
       \/ IF UniqueViolation(inv[p].igPsid)
          THEN /\ inv' = [Swept EXCEPT ![p].pc = "done",
                                     ![p].result = [status |-> 500,
                                                    error |-> "duplicate key value violates unique constraint"]]
               /\ UNCHANGED igUsers
          ELSE /\ igUsers' = Append(igUsers, [ig_psid |-> inv[p].igPsid])
               /\ inv' = [Swept EXCEPT ![p].pc = "done", ![p].returned = Len(igUsers) + 1,
                                     ![p].result = [status |-> 200, error |-> ""]]
    /\ UNCHANGED <<users, processed, drafts, events, calendar, stats>>

\* one step of an upsertUser execution in slot p
UpsertStep(p) ==
    \/ \E psid \in Psids : StartUpsert(p, psid)
    \/ SelectUser(p)
    \/ UpdateLastSeen(p)
    \/ InsertUser(p)

\* webhook deliveries handled by executions that interleave at every store
\* access
NextUpsert == \E p \in Procs : UpsertStep(p)

SpecUpsert == InitEmpty /\ [][NextUpsert]_vars

(***************************************************************************)
(* Properties                                                              *)
(***************************************************************************)
\* the ingestion in slot p has persisted its draft and sendQuickReplies has
\* taken its decision
Decided(p) ==
    /\ inv[p].kind \in {"ocr", "call"}
    /\ inv[p].draftId # NoDraft
    /\ inv[p].pc \notin {"markProcessed", "quickReplies"}

\* slot p runs (or has just finished) the commit handler and is past the
\* draft query
PastSelect(p) == inv[p].pc \in CommitPcs \ {"select"}

\* C1: in process-ocr the commit engine is invoked after the draft is
\* persisted if and only if that draft was stored with needs_confirmation =
\* false; a draft stored with needs_confirmation = true (in particular one
\* with confidence >= 0.8 and a start but no title) triggers no commit.
C1_CommitIffNoConfirmation ==
    \A p \in Procs :
        Decided(p) =>
            ((inv[p].nInvoke > 0) <=> ~drafts[inv[p].draftId].needs_confirmation)

\* C2: the needs_confirmation flag createDraftEvent stores is true exactly
\* when the stored confidence is below 0.8 or the stored start is absent or
\* the stored title is absent.
C2_StoredFlagIsPolicy ==
    [][\A p \in Procs :
          (inv[p].pc = "createDraft" /\ inv'[p].pc = "markProcessed") =>
              /\ Len(drafts') = Len(drafts) + 1
              /\ inv'[p].draftId = Len(drafts')
              /\ drafts'[Len(drafts')].needs_confirmation =
                    (\/ FLess(drafts'[Len(drafts')].confidence, D08)
                     \/ drafts'[Len(drafts')].start_dt = Empty
                     \/ drafts'[Len(drafts')].title = "")]_vars

\* C2 witness: a draft has just been stored with confidence >= 0.8 and a
\* start but no title, flagged as needing confirmation.
C2_Witness ==
    \E p \in Procs :
        /\ inv[p].pc = "markProcessed"
        /\ ~FLess(drafts[inv[p].draftId].confidence, D08)
        /\ drafts[inv[p].draftId].start_dt # Empty
        /\ drafts[inv[p].draftId].title = ""
        /\ drafts[inv[p].draftId].needs_confirmation

\* the draft with id d has been committed: an events row references it or
\* the provider created an event from it
Committed(d) ==
    \/ \E i \in 1..Len(events) : events[i].draft_event_id = d
    \/ \E i \in 1..Len(calendar) : calendar[i].draft = d

\* C3: a commit called without draftEventId selects the user's most recently
\* created draft with needs_confirmation = false, and that draft has not
\* been committed yet.
C3_SelectsLatestUncommitted ==
    \A p \in Procs :
        (inv[p].pc = "getUser" /\ inv[p].draftEventId = NoDraft) =>
            /\ drafts[inv[p].draftEvent.id].user_id = inv[p].userId
            /\ ~drafts[inv[p].draftEvent.id].needs_confirmation
            /\ \A j \in 1..Len(drafts) :
                  (drafts[j].user_id = inv[p].userId /\ ~drafts[j].needs_confirmation)
                      => j <= inv[p].draftEvent.id
            /\ ~Committed(inv[p].draftEvent.id)

\* C4: a commit called with the draftEventId of a draft owned by the user
\* selects exactly that draft and submits exactly that draft to the
\* provider, whether its needs_confirmation flag is true or false; it is
\* reported as not found only if no draft of the user has that id.
C4_ExplicitDraftIsSubmitted ==
    \A p \in Procs :
        inv[p].draftEventId # NoDraft =>
            /\ inv[p].draftEvent.id \in {NoDraft, inv[p].draftEventId}
            /\ inv[p].submitStatus = 200 =>
                  /\ calendar[inv[p].calendarResponse].draft = inv[p].draftEventId
                  /\ drafts[inv[p].draftEventId].user_id = inv[p].userId
            /\ inv[p].commit.error = "No draft event found" =>
                  ~(/\ inv[p].draftEventId \in 1..Len(drafts)
                    /\ drafts[inv[p].draftEventId].user_id = inv[p].userId)

\* C4 witness: a draft that still needed confirmation when it was read has
\* been submitted by the commit that named it.
C4_Witness ==
    \E p \in Procs :
        /\ inv[p].draftEventId # NoDraft
        /\ inv[p].pc = "insertEvent"
        /\ inv[p].draftEvent.needs_confirmation
        /\ calendar[inv[p].calendarResponse].draft = inv[p].draftEventId

NoWrites(p) ==
    /\ inv[p].nSubmit = 0
    /\ inv[p].nEventInsert = 0
    /\ inv[p].nDraftUpdate = 0

\* C5: a commit whose draft query finds no draft, or finds a draft with an
\* empty start, returns an error and does not go on: no credential probe, no
\* provider submission, no events insert and no draft update.
C5_NoDraftOrNoStartStops ==
    \A p \in Procs :
        /\ (PastSelect(p) \/ inv[p].nProbe > 0 \/ inv[p].commit.status = 200) =>
              /\ inv[p].draftEvent.id # NoDraft
              /\ inv[p].draftEvent.start_dt # Empty
        /\ inv[p].commit.error \in {"No draft event found", "Event start time is required"} =>
              /\ inv[p].pc = "done"
              /\ inv[p].commit.status = 500
              /\ inv[p].nProbe = 0
              /\ inv[p].nRefresh = 0
              /\ NoWrites(p)

\* C5 witness: a commit without draftEventId has failed with 'No draft event
\* found' although the user has drafts (all of them awaiting confirmation).
C5_Witness ==
    \E p \in Procs :
        /\ inv[p].pc = "done"
        /\ inv[p].kind = "commit"
        /\ inv[p].draftEventId = NoDraft
        /\ inv[p].commit.error = "No draft event found"
        /\ \E i \in 1..Len(drafts) : drafts[i].user_id = inv[p].userId

\* C6: when the probe answers 401 and the user row read by
\* getValidAccessToken holds no refresh token, getValidAccessToken fails and
\* the commit returns an error: no refresh, no provider submission, no write
\* to draft_events or events.
C6_Unauthorized401WithoutRefreshToken ==
    \A p \in Procs :
        (/\ inv[p].nProbe > 0
         /\ inv[p].probeStatus = 401
         /\ inv[p].user.google_refresh_token = NoToken) =>
            /\ inv[p].pc = "done"
            /\ inv[p].commit.status = 500
            /\ inv[p].commit.error = "Invalid Google access token"
            /\ inv[p].accessToken = NoToken
            /\ inv[p].nRefresh = 0
            /\ NoWrites(p)

\* C6 witness: a commit has ended after a 401 probe for a user without a
\* refresh token.
C6_Witness ==
    \E p \in Procs :
        /\ inv[p].pc = "done"
        /\ inv[p].nProbe = 1
        /\ inv[p].probeStatus = 401
        /\ inv[p].user.google_access_token # NoToken
        /\ inv[p].user.google_refresh_token = NoToken

\* C7: the step in which the provider answers the submission with a non-2xx
\* status ends the commit with an error carrying that status, and changes
\* neither events nor draft_events (nor the provider's calendar).
C7_ProviderErrorSurfaces ==
    [][\A p \in Procs :
          (inv[p].pc = "submit" /\ inv'[p].nSubmit = inv[p].nSubmit + 1
                                /\ inv'[p].submitStatus # 200) =>
              /\ inv'[p].pc = "done"
              /\ inv'[p].commit.status = 500
              /\ inv'[p].commit.error = "Calendar API error"
              /\ inv'[p].commit.upstream = inv'[p].submitStatus
              /\ inv'[p].nEventInsert = 0
              /\ inv'[p].nDraftUpdate = 0
              /\ events' = events
              /\ drafts' = drafts
              /\ calendar' = calendar]_vars

\* C7 witness: a commit has ended with the provider's 403.
C7_Witness ==
    \E p \in Procs :
        /\ inv[p].pc = "done"
        /\ inv[p].nSubmit = 1
        /\ inv[p].submitStatus = 403
        /\ inv[p].commit.error = "Calendar API error"

\* C8: a commit whose provider submission succeeded and whose events insert
\* failed reports success with the provider's event id, leaves the provider
\* event in place, and still issues the draft update, after which (the store
\* having applied it) the draft's needs_confirmation is false.
C8_InsertFailureIsNotFatal ==
    \A p \in Procs :
        (inv[p].eventError /\ inv[p].pc = "done") =>
            /\ inv[p].commit.status = 200
            /\ inv[p].commit.eventId = inv[p].calendarResponse
            /\ inv[p].calendarResponse \in 1..Len(calendar)
            /\ calendar[inv[p].calendarResponse].draft = inv[p].draftEvent.id
            /\ \A i \in 1..Len(events) : events[i].google_event_id # inv[p].calendarResponse
            /\ inv[p].nDraftUpdate = 1
            /\ ~inv[p].draftUpdateError => ~drafts[inv[p].draftEvent.id].needs_confirmation

\* C8 witness: such a commit has flipped the flag of a draft that needed
\* confirmation when it was read.
C8_Witness ==
    \E p \in Procs :
        /\ inv[p].pc = "done"
        /\ inv[p].eventError
        /\ inv[p].draftEvent.needs_confirmation
        /\ ~drafts[inv[p].draftEvent.id].needs_confirmation
        /\ Len(events) = 0

\* no commit is in flight
Quiescent == \A p \in Procs : inv[p].pc \notin CommitPcs

\* C9 as stated: after any sequence of commit invocations there are as many
\* events rows as commits that reported success.
C9_RecordPerSuccess == Quiescent => Len(events) = stats.success

\* C9 amended: after any sequence of commit invocations the events rows are
\* as many as the commits that reported success less those whose events
\* insert failed; and no step changes or removes an existing events row.
C9_RecordPerRecordedSuccess ==
    /\ [](Quiescent => Len(events) = stats.success - stats.unrecorded)
    /\ [][/\ Len(events') >= Len(events)
          /\ \A i \in 1..Len(events) : events'[i] = events[i]]_vars

\* C9 witness: two commits have reported success and one events row exists.
C9_Witness ==
    /\ Quiescent
    /\ stats.success = 2
    /\ stats.unrecorded = 1
    /\ Len(events) = 1

\* C10: at most one draft_events row exists per source message.
C10_OneDraftPerMessage ==
    \A i, j \in 1..Len(drafts) :
        drafts[i].source_message_id = drafts[j].source_message_id => i = j

\* C11: no step of process-ocr or create-calendar-event sets the
\* needs_confirmation flag of an existing draft from false to true (so the
\* flag changes at most once, from true to false), no step removes a draft,
\* and the draft update of a commit leaves a flag that was false false.
C11_FlagOnlyFalls ==
    [][/\ Len(drafts') >= Len(drafts)
       /\ \A i \in 1..Len(drafts) :
             /\ drafts'[i].needs_confirmation => drafts[i].needs_confirmation
             /\ drafts'[i].source_message_id = drafts[i].source_message_id
       /\ \A p \in Procs :
             (inv[p].pc = "updateDraft" /\ ~drafts[inv[p].draftEvent.id].needs_confirmation)
                 => ~drafts'[inv[p].draftEvent.id].needs_confirmation]_vars

\* C11 witness: a commit has applied its draft update to a draft whose flag
\* was already false when the commit read it.
C11_Witness ==
    \E p \in Procs :
        /\ inv[p].pc = "done"
        /\ inv[p].nDraftUpdate = 1
        /\ ~inv[p].draftUpdateError
        /\ ~inv[p].draftEvent.needs_confirmation
        /\ ~drafts[inv[p].draftEvent.id].needs_confirmation

\* C12: when the OCR call or the draft insert of an ingestion fails, the
\* invocation answers with an error in that very step, which creates no
\* draft and leaves messages.processed as it was; the invocation has
\* created no draft and has invoked no commit.
C12_IngestionFailureAborts ==
    /\ [][\A p \in Procs :
            (\/ /\ inv[p].pc = "ocr"
                /\ inv'[p].nOcr = inv[p].nOcr + 1
                /\ inv'[p].pc # "createDraft"
             \/ /\ inv[p].pc = "createDraft"
                /\ inv'[p].nDraftInsert = inv[p].nDraftInsert + 1
                /\ drafts' = drafts) =>
                /\ inv'[p].pc = "done"
                /\ inv'[p].result.status = 500
                /\ drafts' = drafts
                /\ processed' = processed]_vars
    /\ [](\A p \in Procs :
            (inv[p].kind = "ocr" /\ inv[p].pc = "done" /\ inv[p].result.status = 500) =>
                /\ inv[p].draftId = NoDraft
                /\ inv[p].nInvoke = 0
                /\ inv[p].commit.status = 0)

\* C12 witness: the draft insert of the only ingestion so far has failed:
\* there is no draft and the message is still unprocessed.
C12_Witness ==
    \E p \in Procs :
        /\ inv[p].kind = "ocr"
        /\ inv[p].pc = "done"
        /\ inv[p].nDraftInsert = 1
        /\ inv[p].result.status = 500
        /\ Len(drafts) = 0
        /\ ~processed[inv[p].messageId]

\* C13: a commit that names a draft which is already committed and whose
\* needs_confirmation is already false is not refused by the draft query or
\* the checks on its result; every successful submission creates a new
\* provider event for the draft and every successful events insert a new
\* events row for it, whatever exists for that draft already.
C13_RepeatedCommitNotBlocked ==
    /\ [][\A p \in Procs :
            (/\ inv[p].pc = "select"
             /\ inv'[p].pc # "select"
             /\ inv'[p].commit.error # "Database error"
             /\ inv[p].draftEventId \in 1..Len(drafts)
             /\ drafts[inv[p].draftEventId].user_id = inv[p].userId
             /\ drafts[inv[p].draftEventId].start_dt # Empty
             /\ ~drafts[inv[p].draftEventId].needs_confirmation
             /\ Committed(inv[p].draftEventId)) =>
                /\ inv'[p].pc = "getUser"
                /\ inv'[p].draftEvent.id = inv[p].draftEventId]_vars
    /\ [][\A p \in Procs :
            (/\ inv[p].pc = "submit"
             /\ inv'[p].nSubmit = inv[p].nSubmit + 1
             /\ inv'[p].submitStatus = 200) =>
                /\ Len(calendar') = Len(calendar) + 1
                /\ calendar'[Len(calendar')].draft = inv[p].draftEvent.id]_vars
    /\ [][\A p \in Procs :
            (/\ inv[p].pc = "insertEvent"
             /\ inv'[p].nEventInsert = inv[p].nEventInsert + 1
             /\ ~inv'[p].eventError) =>
                /\ Len(events') = Len(events) + 1
                /\ events'[Len(events')].draft_event_id = inv[p].draftEvent.id]_vars

\* C13 witness: the second commit naming the draft, which read the flag as
\* false, has succeeded: two provider events and two events rows exist for
\* the one draft.
C13_Witness ==
    \E p \in Procs :
        /\ inv[p].pc = "done"
        /\ inv[p].commit.status = 200
        /\ inv[p].draftEventId # NoDraft
        /\ ~inv[p].draftEvent.needs_confirmation
        /\ Len(calendar) = 2
        /\ Len(events) = 2
        /\ \A i \in 1..2 :
              /\ calendar[i].draft = inv[p].draftEventId
              /\ events[i].draft_event_id = inv[p].draftEventId

CredentialErrors ==
    { "No Google access token found. Please connect your Google Calendar.",
      "Invalid Google access token",
      "Failed to refresh Google access token" }

\* the positions of getValidAccessToken between its call of refresh and the
\* response
RefreshCall == {"refresh"} \cup RefreshPcs

\* C14: getValidAccessToken returns a token only after one probe: the stored
\* token when the probe succeeded (no refresh), or, when the probe answered
\* 401 and the row read holds a refresh token, the token the endpoint issued
\* to the one refresh it called, which is the user's stored access token
\* when the refresh returns; a refresh that fails leaves the stored tokens
\* as they were; a commit never reaches the provider without a token, and a
\* commit that failed in getValidAccessToken holds no token.
C14_TokenFromProbeOrOneRefresh ==
    /\ [](\A p \in Procs :
            /\ inv[p].nRefresh <= 1
            /\ inv[p].nRefresh = 1 =>
                  /\ inv[p].probeStatus = 401
                  /\ inv[p].user.google_refresh_token # NoToken
            /\ inv[p].accessToken # NoToken =>
                  /\ inv[p].nProbe = 1
                  /\ \/ /\ Ok(inv[p].probeStatus)
                        /\ inv[p].nRefresh = 0
                        /\ inv[p].accessToken = inv[p].user.google_access_token
                     \/ /\ inv[p].probeStatus = 401
                        /\ inv[p].nRefresh = 1
                        /\ inv[p].accessToken \in NewTokens
            /\ inv[p].pc \in {"submit", "insertEvent", "updateDraft"} =>
                  inv[p].accessToken # NoToken
            /\ inv[p].commit.error \in CredentialErrors =>
                  /\ inv[p].accessToken = NoToken
                  /\ inv[p].nSubmit = 0)
    /\ [][\A p \in Procs :
            (inv[p].pc \in RefreshCall /\ inv'[p].pc \notin RefreshCall) =>
                \/ /\ inv'[p].pc = "submit"
                   /\ inv'[p].accessToken = inv[p].tokens.access_token
                   /\ inv'[p].accessToken \in NewTokens
                   /\ users'[inv[p].userId].google_access_token = inv'[p].accessToken
                \/ /\ inv'[p].pc = "done"
                   /\ inv'[p].commit.error = "Failed to refresh Google access token"
                   /\ users' = users]_vars
    /\ [][\A p \in Procs :
            (/\ inv[p].pc \in RefreshCall
             /\ inv'[p] # inv[p]
             /\ inv'[p].pc \in RefreshCall) =>
                users' = users]_vars

\* C14 witness: after a 401 probe and one refresh the commit holds a token
\* that differs from the one it read and that is now the stored one.
C14_Witness ==
    \E p \in Procs :
        /\ inv[p].pc = "submit"
        /\ inv[p].nRefresh = 1
        /\ inv[p].accessToken # inv[p].user.google_access_token
        /\ users[inv[p].userId].google_access_token = inv[p].accessToken

\* the invocation in slot p holds the result of parseEventFromText
Parsed(p) == inv[p].pc \in {"parsed", "createDraft"}

\* C15: for every text the confidence parseEventFromText returns lies in
\* [0.5, 1.0] (so in [0, 1]); for the empty text title, start, location and
\* notes are empty and the confidence is exactly 0.5.
C15_ConfidenceInRange ==
    \A p \in Procs :
        Parsed(p) =>
            /\ ~FLess(inv[p].eventData.confidence, D05)
            /\ ~FLess(D10, inv[p].eventData.confidence)
            /\ inv[p].ocrText = <<>> =>
                  /\ inv[p].eventData.title = ""
                  /\ inv[p].eventData.start_dt = Empty
                  /\ inv[p].eventData.location = ""
                  /\ inv[p].eventData.notes = <<>>
                  /\ inv[p].eventData.confidence = D05

\* C15 witness: the empty text has been parsed.
C15_Witness ==
    \E p \in Procs :
        /\ Parsed(p)
        /\ inv[p].ocrText = <<>>
        /\ inv[p].eventData.confidence = D05

\* the text has the date-only line "When: 2024-09-16", the separate time line
\* "Time: 7:00 PM" and no other date
HasDateAndTime(text) ==
    /\ \E i \in 1..Len(text) : text[i] = LWhen
    /\ \E i \in 1..Len(text) : text[i] = LTime
    /\ \A i \in 1..Len(text) : text[i] # LDate

\* 7:00 PM on 2024-09-16 as an instant, in any time zone (UTC-12 .. UTC+14)
SevenPmOnTheDate == {DateParse("2024-09-16") + (19 - z) * 60 : z \in -12..14}

\* C16: for every text with a date line and a separate time-of-day line the
\* start parseEventFromText returns is the one timestamp that combines that
\* date with that time of day, and the confidence is at least
\* min(1.0, 0.5 + 0.3 + 0.2).
C16_DateAndTimeMerged ==
    \A p \in Procs :
        (Parsed(p) /\ HasDateAndTime(inv[p].ocrText)) =>
            /\ IsIso(inv[p].eventData.start_dt)
            /\ inv[p].eventData.start_dt.iso \in SevenPmOnTheDate
            /\ ~FLess(inv[p].eventData.confidence,
                      FMin(D10, FAdd(FAdd(D05, D03), D02)))

\* the confidence part of C16 alone
C16_ConfidenceOfDateAndTime ==
    \A p \in Procs :
        (Parsed(p) /\ HasDateAndTime(inv[p].ocrText)) =>
            ~FLess(inv[p].eventData.confidence, FMin(D10, FAdd(FAdd(D05, D03), D02)))

\* what the code returns as start for such a text: midnight UTC of the date
C16_StartIsDateAtMidnight ==
    \A p \in Procs :
        (Parsed(p) /\ HasDateAndTime(inv[p].ocrText)) =>
            inv[p].eventData.start_dt = Iso(DateParse("2024-09-16"))

\* C17: the payload submitted for a draft has the draft's start, and as end
\* the draft's end when it has one and otherwise the start plus exactly two
\* hours; for start 2024-09-15T19:00:00Z and no end it is
\* 2024-09-15T21:00:00Z.
C17_PayloadEnd ==
    \A i \in 1..Len(calendar) :
        /\ calendar[i].body.start = drafts[calendar[i].draft].start_dt
        /\ drafts[calendar[i].draft].end_dt # Empty =>
              calendar[i].body.end = drafts[calendar[i].draft].end_dt
        /\ drafts[calendar[i].draft].end_dt = Empty =>
              calendar[i].body.end = Iso(drafts[calendar[i].draft].start_dt.iso + 2 * 60)
        /\ (/\ drafts[calendar[i].draft].start_dt = Iso(DateParse("2024-09-15T19:00:00Z"))
            /\ drafts[calendar[i].draft].end_dt = Empty) =>
              calendar[i].body.end = Iso(DateParse("2024-09-15T21:00:00Z"))

\* C17 witness: a draft starting 2024-09-15T19:00:00Z with no end has been
\* submitted with end 2024-09-15T21:00:00Z.
C17_Witness ==
    \E i \in 1..Len(calendar) :
        /\ drafts[calendar[i].draft].start_dt = Iso(DateParse("2024-09-15T19:00:00Z"))
        /\ drafts[calendar[i].draft].end_dt = Empty
        /\ calendar[i].body.end = Iso(DateParse("2024-09-15T21:00:00Z"))

\* the execution in slot q has read draft d and has not answered yet
Holds(q, d) == inv[q].pc \in CommitPcs \ {"select"} /\ inv[q].draftEvent.id = d

\* C18: nothing serialises two commits of one draft: while another execution
\* holds the draft, the draft query of a commit that names it still returns
\* it and the commit goes on; its successful submission creates one more
\* provider event for the draft and its successful events insert one more
\* events row, whatever the other execution has done.
C18_NoGuardOnConcurrentCommit ==
    /\ [][\A p, q \in Procs :
            (/\ p # q
             /\ Holds(q, inv[p].draftEventId)
             /\ inv[p].pc = "select"
             /\ inv'[p].pc # "select"
             /\ inv'[p].commit.error # "Database error"
             /\ drafts[inv[p].draftEventId].user_id = inv[p].userId
             /\ drafts[inv[p].draftEventId].start_dt # Empty) =>
                /\ inv'[p].pc = "getUser"
                /\ inv'[p].draftEvent.id = inv[p].draftEventId]_vars
    /\ [][\A p, q \in Procs :
            (/\ p # q
             /\ Holds(q, inv[p].draftEvent.id)
             /\ inv[p].pc = "submit"
             /\ inv'[p].nSubmit = inv[p].nSubmit + 1
             /\ inv'[p].submitStatus = 200) =>
                /\ Len(calendar') = Len(calendar) + 1
                /\ calendar'[Len(calendar')].draft = inv[p].draftEvent.id]_vars
    /\ [][\A p, q \in Procs :
            (/\ p # q
             /\ Holds(q, inv[p].draftEvent.id)
             /\ inv[p].pc = "insertEvent"
             /\ inv'[p].nEventInsert = inv[p].nEventInsert + 1
             /\ ~inv'[p].eventError) =>
                /\ Len(events') = Len(events) + 1
                /\ events'[Len(events')].draft_event_id = inv[p].draftEvent.id]_vars

\* C18 witness: two executions that both read the draft before either
\* updated it have both submitted it and both recorded it: two provider
\* events and two events rows exist for the one draft.
C18_Witness ==
    /\ inv["p1"].pc = "updateDraft"
    /\ inv["p2"].pc = "updateDraft"
    /\ inv["p1"].draftEvent.id = inv["p2"].draftEvent.id
    /\ inv["p1"].draftEvent.needs_confirmation
    /\ inv["p2"].draftEvent.needs_confirmation
    /\ Len(calendar) = 2
    /\ Len(events) = 2
    /\ \A i \in 1..2 :
          /\ calendar[i].draft = inv["p1"].draftEvent.id
          /\ events[i].draft_event_id = inv["p1"].draftEvent.id

\* C19: the commit an ingestion invokes submits the draft that ingestion
\* created and no other.
C19_AutoCommitSubmitsOwnDraft ==
    \A p \in Procs :
        (inv[p].nested /\ inv[p].nSubmit > 0 /\ inv[p].submitStatus = 200) =>
            calendar[inv[p].calendarResponse].draft = inv[p].draftId

\* C19 restricted to ingestions whose own draft was stored with
\* needs_confirmation = false
C19_EligibleAutoCommitSubmitsOwnDraft ==
    \A p \in Procs :
        (/\ inv[p].nested /\ inv[p].nSubmit > 0 /\ inv[p].submitStatus = 200
         /\ ~NeedsConfirmation(inv[p].eventData)) =>
            calendar[inv[p].calendarResponse].draft = inv[p].draftId

\* a step of the invocation in slot p has failed, the events insert apart
\* (a failed OCR or draft insert answers 500 in the failing step itself)
StepFailed(p) ==
    \/ inv[p].result.status = 500
    \/ inv[p].markError
    \/ inv[p].commit.status = 500
    \/ inv[p].draftUpdateError

\* C20: an invocation in which a step other than the events insert failed
\* answers its caller with a failure.
C20_EveryFailureReported ==
    \A p \in Procs :
        (inv[p].pc = "done" /\ StepFailed(p)) => inv[p].result.status = 500

\* what does hold: a create-calendar-event execution requested directly that
\* failed in its draft query, credential retrieval or provider submission
\* answers 500.
C20_DirectCommitFailureReported ==
    \A p \in Procs :
        (inv[p].pc = "done" /\ inv[p].kind = "commit" /\ inv[p].commit.status = 500)
            => inv[p].result.status = 500

\* the steps of process-ocr in the order of the handler: from each position
\* the positions its next step can lead to
OcrOrder ==
    { <<"ocr", "createDraft">>, <<"ocr", "done">>,
      <<"createDraft", "markProcessed">>, <<"createDraft", "done">>,
      <<"markProcessed", "quickReplies">>,
      <<"quickReplies", "select">>, <<"quickReplies", "done">> }

\* C21: an ingestion passes through OCR and extraction, draft insert, mark
\* processed, then pending or auto-commit, in that order; the draft insert is
\* attempted whatever the confidence and the row it stores carries that
\* confidence; a message is marked processed only by an ingestion that has
\* persisted a draft for it; the commit engine is invoked only by an
\* ingestion that has persisted its draft.
C21_IngestionOrder ==
    /\ [][\A p \in Procs :
            (inv[p].pc \in OcrPcs /\ inv'[p].pc # inv[p].pc) =>
                /\ <<inv[p].pc, inv'[p].pc>> \in OcrOrder
                /\ inv[p].pc = "createDraft" =>
                      /\ inv'[p].nDraftInsert = 1
                      /\ inv'[p].pc = "markProcessed" =>
                            /\ drafts' = Append(drafts, drafts'[Len(drafts')])
                            /\ inv'[p].draftId = Len(drafts')
                            /\ drafts'[Len(drafts')].confidence = inv[p].eventData.confidence
                            /\ drafts'[Len(drafts')].source_message_id = inv[p].messageId]_vars
    /\ [][\A m \in Messages :
            processed'[m] # processed[m] =>
                \E p \in Procs :
                    /\ inv[p].pc = "markProcessed"
                    /\ inv[p].messageId = m
                    /\ inv[p].draftId \in 1..Len(drafts)
                    /\ drafts[inv[p].draftId].source_message_id = m]_vars
    /\ [](\A p \in Procs :
            /\ inv[p].pc \in {"markProcessed", "quickReplies"} =>
                  inv[p].draftId \in 1..Len(drafts)
            /\ (inv[p].nInvoke > 0 \/ inv[p].nested) =>
                  /\ inv[p].nOcr = 1
                  /\ inv[p].nDraftInsert = 1
                  /\ inv[p].draftId \in 1..Len(drafts)
                  /\ drafts[inv[p].draftId].source_message_id = inv[p].messageId)

\* C21 witness: an ingestion has called OCR once, persisted its draft with
\* the confidence of its candidate, marked its message processed and ended
\* pending, no commit invoked.
C21_Witness ==
    \E p \in Procs :
        /\ inv[p].kind = "ocr"
        /\ inv[p].pc = "done"
        /\ inv[p].result.status = 200
        /\ inv[p].nOcr = 1
        /\ inv[p].nInvoke = 0
        /\ inv[p].draftId \in 1..Len(drafts)
        /\ drafts[inv[p].draftId].confidence = inv[p].eventData.confidence
        /\ drafts[inv[p].draftId].source_message_id = inv[p].messageId
        /\ processed[inv[p].messageId]

\* the positions of a handler invocation in the order of the code
HandlerSteps ==
    << "ocr", "createDraft", "markProcessed", "quickReplies",
       "select", "getUser", "probe",
       "refresh", "readRefreshToken", "tokenRequest", "storeToken",
       "submit", "insertEvent", "updateDraft",
       "done" >>

Position(pc) == CHOOSE i \in 1..Len(HandlerSteps) : HandlerSteps[i] = pc

Running(p) == inv[p].pc \in OcrPcs \cup CommitPcs

\* C22: no step is retried: an invocation makes at most one OCR call, one
\* draft insert, one commit invocation, one credential probe, one refresh
\* call, one provider submission, one events insert and one draft update;
\* every step of an invocation moves it forward in the handler, never back
\* to a step it has taken; and every invocation whose calls return ends with
\* a success or error response.
C22_NoRetryAndTermination ==
    /\ [](\A p \in Procs :
            /\ inv[p].nOcr <= 1
            /\ inv[p].nDraftInsert <= 1
            /\ inv[p].nInvoke <= 1
            /\ inv[p].nProbe <= 1
            /\ inv[p].nRefresh <= 1
            /\ inv[p].nSubmit <= 1
            /\ inv[p].nEventInsert <= 1
            /\ inv[p].nDraftUpdate <= 1
            /\ inv[p].pc = "done" => inv[p].result.status \in {200, 500})
    /\ [][\A p \in Procs :
            (Running(p) /\ inv'[p] # inv[p]) =>
                Position(inv'[p].pc) > Position(inv[p].pc)]_vars
    /\ \A p \in {"p1"} : Running(p) ~> (inv[p].pc = "done")

\* C22 witness: a commit has ended with an error after one probe and one
\* failed refresh call, without any submission.
C22_Witness ==
    \E p \in Procs :
        /\ inv[p].pc = "done"
        /\ inv[p].nProbe = 1
        /\ inv[p].nRefresh = 1
        /\ inv[p].nSubmit = 0
        /\ inv[p].result.status = 500
        /\ inv[p].commit.error = "Failed to refresh Google access token"

\* the first match of a date pattern in `line`, from pattern k on, that
\* parses to an absolute timestamp, as a start value; Empty if there is none
RECURSIVE FirstParsedMatch(_, _)
FirstParsedMatch(line, k) ==
    IF k > NumDateTimeRegexes THEN Empty
    ELSE IF DateTimeMatch(line, k) # NoMatch /\ DateParse(DateTimeMatch(line, k)) # NaN
         THEN Iso(DateParse(DateTimeMatch(line, k)))
         ELSE FirstParsedMatch(line, k + 1)

\* the same over the lines in order: the first line that has one
RECURSIVE FirstParsedStart(_)
FirstParsedStart(lines) ==
    IF lines = <<>> THEN Empty
    ELSE IF FirstParsedMatch(Head(lines), 1) # Empty THEN FirstParsedMatch(Head(lines), 1)
         ELSE FirstParsedStart(Tail(lines))

\* the last line that has one
RECURSIVE LastParsedStart(_)
LastParsedStart(lines) ==
    IF lines = <<>> THEN Empty
    ELSE IF LastParsedStart(Tail(lines)) # Empty THEN LastParsedStart(Tail(lines))
         ELSE FirstParsedMatch(Head(lines), 1)

\* C23: the start parseEventFromText returns is the first match, in line
\* order and pattern order, that parses to an absolute timestamp; later
\* matches leave it unchanged.
C23_FirstMatchWins ==
    \A p \in Procs :
        Parsed(p) =>
            inv[p].eventData.start_dt = FirstParsedStart(SplitLines(inv[p].ocrText))

\* what the code returns: the match of the last line that has a parsing
\* match (no line of the catalogue has two)
C23_LastMatchWins ==
    \A p \in Procs :
        Parsed(p) =>
            inv[p].eventData.start_dt = LastParsedStart(SplitLines(inv[p].ocrText))

\* the first match of a date pattern in `line`, from pattern k on, parsing
\* or not; NoMatch if there is none
RECURSIVE FirstMatchInLine(_, _)
FirstMatchInLine(line, k) ==
    IF k > NumDateTimeRegexes THEN NoMatch
    ELSE IF DateTimeMatch(line, k) # NoMatch THEN DateTimeMatch(line, k)
         ELSE FirstMatchInLine(line, k + 1)

RECURSIVE FirstMatch(_)
FirstMatch(lines) ==
    IF lines = <<>> THEN NoMatch
    ELSE IF FirstMatchInLine(Head(lines), 1) # NoMatch THEN FirstMatchInLine(Head(lines), 1)
         ELSE FirstMatch(Tail(lines))

\* some date pattern matches in the text and no match parses
OnlyUnparsedMatches(text) ==
    /\ FirstMatch(SplitLines(text)) # NoMatch
    /\ FirstParsedStart(SplitLines(text)) = Empty

\* C24: for a text in which date patterns match but no match parses to an
\* absolute timestamp, parseEventFromText returns the first raw matched
\* substring as start, and an empty end.
C24_RawMatchStored ==
    \A p \in Procs :
        (Parsed(p) /\ OnlyUnparsedMatches(inv[p].ocrText)) =>
            /\ inv[p].eventData.start_dt = Raw(FirstMatch(SplitLines(inv[p].ocrText)))
            /\ inv[p].eventData.end_dt = Empty

\* what the code returns for such a text: no start and no end
C24_UnparsedMatchIgnored ==
    \A p \in Procs :
        (Parsed(p) /\ OnlyUnparsedMatches(inv[p].ocrText)) =>
            /\ inv[p].eventData.start_dt = Empty
            /\ inv[p].eventData.end_dt = Empty

\* no start that parseEventFromText returns is a raw string
C24_StartNeverRaw ==
    \A p \in Procs :
        Parsed(p) => (inv[p].eventData.start_dt = Empty \/ IsIso(inv[p].eventData.start_dt))

\* a + b when `cond`, else a
FAddIf(a, cond, b) == IF cond THEN FAdd(a, b) ELSE a

\* the spec's confidence of a parse result: the base and one bonus per
\* category found, added in the order title, date, time, location, notes
ConfidenceOncePerCategory(lines, eventData) ==
    FMin(D10,
         FAddIf(FAddIf(FAddIf(FAddIf(FAddIf(FAddIf(D05,
             eventData.title # "", D02),
             IsIso(eventData.start_dt), D03),
             eventData.start_dt # Empty /\ ~IsIso(eventData.start_dt), D01),
             \E i \in 1..Len(lines) : TimeMatch(lines[i]) # NoMatch, D02),
             eventData.location # "", D02),
             eventData.notes # <<>>, D01))

\* the number of date-pattern matches in the lines that parse
RECURSIVE ParsedMatches(_)
ParsedMatches(lines) ==
    IF lines = <<>> THEN 0
    ELSE Cardinality({k \in 1..NumDateTimeRegexes :
                         /\ DateTimeMatch(Head(lines), k) # NoMatch
                         /\ DateParse(DateTimeMatch(Head(lines), k)) # NaN})
         + ParsedMatches(Tail(lines))

\* C25: the confidence parseEventFromText returns is min(1.0, 0.5 + 0.2 for
\* a title + 0.3 for a parsed date (0.1 for a raw one) + 0.2 for a time
\* token + 0.2 for a location + 0.1 for notes), each bonus counted once.
C25_ConfidenceOncePerCategory ==
    \A p \in Procs :
        Parsed(p) =>
            inv[p].eventData.confidence =
                ConfidenceOncePerCategory(SplitLines(inv[p].ocrText), inv[p].eventData)

\* the formula on the texts with at most one date match that parses
C25_ConfidenceWithOneDate ==
    \A p \in Procs :
        (Parsed(p) /\ ParsedMatches(SplitLines(inv[p].ocrText)) <= 1) =>
            inv[p].eventData.confidence =
                ConfidenceOncePerCategory(SplitLines(inv[p].ocrText), inv[p].eventData)

\* C26: a commit called without draftEventId (the auto-commit of process-ocr,
\* the SAVE quick reply) never selects a draft whose needs_confirmation is
\* true, and the flag of the draft it selected is false from then on; the
\* step that submits a draft whose flag is true belongs to a commit that
\* named that draft's id.
C26_FlaggedDraftNeedsExplicitId ==
    /\ [](\A p \in Procs :
            (inv[p].draftEventId = NoDraft /\ inv[p].draftEvent.id # NoDraft) =>
                /\ ~inv[p].draftEvent.needs_confirmation
                /\ ~drafts[inv[p].draftEvent.id].needs_confirmation)
    /\ [][\A p \in Procs :
            (/\ inv[p].pc = "submit"
             /\ inv'[p].nSubmit = inv[p].nSubmit + 1
             /\ inv'[p].submitStatus = 200
             /\ drafts[inv[p].draftEvent.id].needs_confirmation) =>
                /\ inv[p].draftEventId = inv[p].draftEvent.id
                /\ ~inv[p].nested]_vars

\* C26 witness: a commit that named the id of a draft has submitted it while
\* its flag is still true, and the table also holds a draft of the user with
\* the flag false.
C26_Witness ==
    \E p \in Procs :
        /\ inv[p].pc = "updateDraft"
        /\ inv[p].draftEventId # NoDraft
        /\ drafts[inv[p].draftEventId].needs_confirmation
        /\ \E i \in 1..Len(calendar) : calendar[i].draft = inv[p].draftEventId
        /\ \E j \in 1..Len(drafts) :
              drafts[j].user_id = inv[p].userId /\ ~drafts[j].needs_confirmation

\* the commit in slot p named the id of a draft that another user owns
NamesForeignDraft(p) ==
    /\ inv[p].kind = "commit"
    /\ inv[p].draftEventId \in 1..Len(drafts)
    /\ drafts[inv[p].draftEventId].user_id # inv[p].userId

\* C27: the draft a commit for user U selects, submits and records is owned
\* by U; a commit that names a draft of another user fails with 'No draft
\* event found' (a store error apart) without probe, submission or write;
\* and every events row has the user of the draft it references.
C27_CommitStaysWithinUser ==
    \A p \in Procs :
        /\ inv[p].draftEvent.id # NoDraft =>
              /\ inv[p].draftEvent.user_id = inv[p].userId
              /\ drafts[inv[p].draftEvent.id].user_id = inv[p].userId
        /\ inv[p].submitStatus = 200 =>
              drafts[calendar[inv[p].calendarResponse].draft].user_id = inv[p].userId
        /\ (NamesForeignDraft(p) /\ inv[p].pc # "select") =>
              /\ inv[p].pc = "done"
              /\ inv[p].result.status = 500
              /\ inv[p].commit.error \in {"No draft event found", "Database error"}
              /\ inv[p].nProbe = 0
              /\ NoWrites(p)
        /\ \A i \in 1..Len(events) :
              events[i].user_id = drafts[events[i].draft_event_id].user_id

\* C27 witness: a commit for u2 that named a draft of u1 has failed with 'No
\* draft event found', while u2's own credentials are in place.
C27_Witness ==
    \E p \in Procs :
        /\ NamesForeignDraft(p)
        /\ inv[p].pc = "done"
        /\ inv[p].commit.error = "No draft event found"
        /\ users[inv[p].userId].google_access_token # NoToken
        /\ drafts[inv[p].draftEventId].start_dt # Empty
        /\ Len(calendar) = 0

\* C28: an events row is inserted only by an invocation whose provider
\* submission has succeeded, with the provider's id of the event that
\* submission created and the id of the draft that was submitted; every
\* events row refers to a provider event created from its draft, no two rows
\* to the same one, and the events rows never outnumber the provider events.
C28_RecordFollowsSubmission ==
    /\ [][events' # events =>
            \E p \in Procs :
                /\ inv[p].pc = "insertEvent"
                /\ inv'[p].nEventInsert = inv[p].nEventInsert + 1
                /\ inv[p].nSubmit = 1
                /\ inv[p].submitStatus = 200
                /\ inv[p].calendarResponse \in 1..Len(calendar)
                /\ calendar[inv[p].calendarResponse].draft = inv[p].draftEvent.id
                /\ events' = Append(events, events'[Len(events')])
                /\ events'[Len(events')].google_event_id = inv[p].calendarResponse
                /\ events'[Len(events')].draft_event_id = inv[p].draftEvent.id]_vars
    /\ [](/\ \A i \in 1..Len(events) :
                /\ events[i].google_event_id \in 1..Len(calendar)
                /\ calendar[events[i].google_event_id].draft = events[i].draft_event_id
          /\ \A i, j \in 1..Len(events) :
                events[i].google_event_id = events[j].google_event_id => i = j
          /\ Len(events) <= Len(calendar))

\* C28 witness: two provider events exist, the first without a record (its
\* insert failed) and the second recorded by a commit called without id.
C28_Witness ==
    /\ Len(calendar) = 2
    /\ Len(events) = 1
    /\ events[1].google_event_id = 2
    /\ \E p \in Procs :
          /\ inv[p].pc = "updateDraft"
          /\ inv[p].draftEventId = NoDraft
          /\ inv[p].calendarResponse = 2

\* the step taken is a step of the /refresh execution in slot p
RefreshMoves(p) == inv[p].pc \in RefreshPcs /\ inv'[p] # inv[p]

\* C29: no step of /refresh changes a stored refresh token (a stored refresh
\* token changes only in the storing step of a /callback); a step of
\* /refresh changes the users table only if it is the last step of a refresh
\* that succeeds, and then only the access token of the user of the request,
\* which becomes the token the endpoint issued; a refresh for a user without
\* stored refresh token, or one the token endpoint rejects, answers with an
\* error and the step that answers with an error leaves the users table as
\* it was.
C29_RefreshFrame ==
    /\ [][\A p \in Procs :
            RefreshMoves(p) =>
                \A u \in Users :
                    users'[u].google_refresh_token = users[u].google_refresh_token]_vars
    /\ [][(\E u \in Users :
               users'[u].google_refresh_token # users[u].google_refresh_token) =>
            \E p \in Procs : inv[p].pc = "storeTokens" /\ inv'[p].pc = "done"]_vars
    /\ [][\A p \in Procs :
            (RefreshMoves(p) /\ users' # users) =>
                /\ inv[p].pc = "storeToken"
                /\ inv'[p].pc = "done"
                /\ inv'[p].result.status = 200
                /\ users' = [users EXCEPT ![inv[p].userId].google_access_token =
                                              inv[p].tokens.access_token]]_vars
    /\ [][\A p \in Procs :
            (inv[p].pc \in RefreshPcs /\ inv'[p].pc = "done"
                                      /\ inv'[p].result.status # 200) =>
                /\ inv'[p].result.status = 500
                /\ users' = users]_vars
    /\ [][\A p \in Procs :
            (/\ inv[p].pc = "readRefreshToken"
             /\ inv'[p].pc # "readRefreshToken"
             /\ users[inv[p].userId].google_refresh_token = NoToken) =>
                /\ inv'[p].pc = "done"
                /\ inv'[p].result = [status |-> 500, error |-> "No refresh token found"]]_vars
    /\ [](\A p \in Procs :
            (inv[p].pc = "done" /\ inv[p].kind = "refresh" /\ inv[p].result.status = 200) =>
                inv[p].refreshToken # NoToken)

\* C29 witness: a refresh has replaced the stored access token of a user and
\* the refresh token it read is still the stored one.
C29_Witness ==
    \E p \in Procs :
        /\ inv[p].kind = "refresh"
        /\ inv[p].pc = "done"
        /\ inv[p].result.status = 200
        /\ users[inv[p].userId].google_access_token = inv[p].tokens.access_token
        /\ inv[p].tokens.access_token \in NewTokens
        /\ users[inv[p].userId].google_refresh_token = inv[p].refreshToken

\* C30: in every state reached by interleaved upsertUser executions no two
\* users rows have the same ig_psid; an execution whose select returned a
\* row inserts nothing and returns that row's id; and every id upsertUser
\* returns is the id of the one row with the sender's ig_psid.
C30_OneUserPerPsid ==
    /\ [](\A i, j \in 1..Len(igUsers) :
            igUsers[i].ig_psid = igUsers[j].ig_psid => i = j)
    /\ [](\A p \in Procs :
            /\ inv[p].existingUser # NoUser =>
                  /\ inv[p].pc \in {"updateLastSeen", "done"}
                  /\ igUsers[inv[p].existingUser].ig_psid = inv[p].igPsid
            /\ inv[p].returned # NoUser =>
                  /\ UsersWithPsid(inv[p].igPsid) = {inv[p].returned}
                  /\ inv[p].existingUser \in {NoUser, inv[p].returned})
    /\ [][\A p \in Procs :
            (/\ inv[p].pc = "selectUser"
             /\ inv'[p].pc # "selectUser"
             /\ ~inv'[p].selectError
             /\ UsersWithPsid(inv[p].igPsid) # {}) =>
                /\ inv'[p].pc = "updateLastSeen"
                /\ inv'[p].existingUser \in UsersWithPsid(inv[p].igPsid)]_vars
    /\ [][\A p \in Procs :
            (inv[p].pc = "updateLastSeen" /\ inv'[p].pc = "done") =>
                /\ igUsers' = igUsers
                /\ inv'[p].returned = inv[p].existingUser]_vars

\* C30 witness: of two deliveries for a new PSID whose selects both found no
\* user, one has created the row and the insert of the other has been
\* rejected: one row exists for the PSID.
C30_Witness ==
    \E p \in Procs :
        /\ inv[p].kind = "upsert"
        /\ inv[p].pc = "done"
        /\ ~inv[p].selectError
        /\ inv[p].existingUser = NoUser
        /\ inv[p].result.error = "duplicate key value violates unique constraint"
        /\ Cardinality(UsersWithPsid(inv[p].igPsid)) = 1
====
